---------------------------- MODULE Spec2Model ----------------------------
(***************************************************************************)
(* A model of hackathon-harvester (src/app.py): the record store and its   *)
(* maintenance (remove_expired_hackathons, remove_duplicates), the         *)
(* response parser (HackathonScraper.parse_hackathon_data) and the         *)
(* ingestion cycle (automatic_scrape.run_scraping).                        *)
(*                                                                         *)
(* Strings are TLA+ strings, handled character by character with Len,      *)
(* SubSeq and \o.  A stored document is a function from field names to     *)
(* values; a field the document lacks is not in its DOMAIN.  A datetime    *)
(* is an integer count of half-days (12 h) since 2026-05-31 00:00, so that *)
(* the date of datetime t is day t \div 2 of June 2026.                    *)
(***************************************************************************)
EXTENDS Integers, Sequences, FiniteSets, TLC

VARIABLES
    store,          \* hackathons_collection: the documents in natural order
    nextId,         \* the next _id the store hands out
    now,            \* the UTC wall clock, in half-days
    tz,             \* local time minus UTC, in half-days (fixed per process)
    lastOp,         \* the handler that ran last
    prior,          \* the handler that ran before that one
    pre,            \* the store as that handler found it
    ret,            \* what that handler returned
    reply,          \* what the search service composed: elements and wrapping
    raw,            \* raw_data: the text of the reply
    limit,          \* parse_hackathon_data: limit
    parsed,         \* parse_hackathon_data: the returned list
    pc,             \* run_scraping: position of the cycle
    attempt,        \* search_hackathons: attempts that have failed
    hackathons,     \* run_scraping: the validated candidates
    idx,            \* run_scraping: candidates the DEDUP loop has examined
    new_hackathons, \* run_scraping: candidates found new so far
    inserted,       \* run_scraping: the documents handed to insert_many
    caught,         \* run_scraping: its except clause has run
    raised,         \* an exception left the handler that ran last
    wait,           \* search_hackathons: seconds it sleeps before it retries
    service,        \* the search service the process talks to, by name
    thread,         \* the thread whose cycle the variables above belong to
    parked,         \* the cycle of the other thread, while this one runs
    ended,          \* how the scheduler's earlier cycles ended
    response,       \* what a route handed to its client
    request,        \* what the update route was called with
    scan            \* maintenance under way: the call or loop it is at

vars == <<store, nextId, now, tz, lastOp, prior, pre, ret, reply, raw, limit,
          parsed,
          pc, attempt, hackathons, idx, new_hackathons, inserted, caught,
          raised, wait, service, thread, parked, ended, response,
          request, scan>>

(***************************************************************************)
(* Bounds of the model.                                                    *)
(***************************************************************************)
MaxExpiryStore == 2   \* documents in a store of the expiry family
MaxDedupStore == 3    \* documents in a store of the duplicate family
MaxTicks == 1         \* half-days the clock may advance
MaxBatch == 2         \* elements of a reply whose parse is examined alone
MaxCycleBatch == 2    \* elements of a reply fetched by a cycle
MaxReadStore == 2     \* documents in a store a read route is called on
MaxCycles == 1        \* cycles the scheduler starts after its first
MaxPieces == 3        \* pieces after the bracket of a text that is extracted
MaxListStore == 3     \* documents in a store the list view is rendered from
MaxUpdateStore == 2   \* documents in a store the update route is called on
MaxSimilarStore == 3  \* documents in a store the similar-title loop reads
MaxRaceBatch == 3     \* documents a COMMIT inserts while maintenance runs
MaxMaintainStore == 3 \* documents in a store both maintenance calls run on
MaxRunStore == 2      \* documents in a store two collapse runs work on

(***************************************************************************)
(* Python str                                                              *)
(***************************************************************************)
Char(s, i) == SubSeq(s, i, i)

UpperAlpha == "ABCDEFGHIJKLMNOPQRSTUVWXYZ"
LowerAlpha == "abcdefghijklmnopqrstuvwxyz"
Digits == "0123456789"
\* The printable ASCII characters in code order (the backquote is left out).
Ascii == " !\"#$%&'()*+,-./0123456789:;<=>?@ABCDEFGHIJKLMNOPQRSTUVWXYZ[\\]^_abcdefghijklmnopqrstuvwxyz{|}~"

CharsOf(alphabet) == {Char(alphabet, i) : i \in 1..Len(alphabet)}
\* The position of each character of an alphabet
IndexOf(alphabet) ==
    [c \in CharsOf(alphabet) |-> CHOOSE i \in 1..Len(alphabet) : Char(alphabet, i) = c]

UpperChars == CharsOf(UpperAlpha)
AlnumChars == CharsOf(UpperAlpha) \cup CharsOf(LowerAlpha) \cup CharsOf(Digits)
DigitChars == CharsOf(Digits)
UpperIndex == IndexOf(UpperAlpha)
DigitIndex == IndexOf(Digits)
\* ord(c)
Ord == IndexOf(Ascii)

IsSpace(c) == c \in {" ", "\n", "\r", "\t"}
IsDigit(c) == c \in DigitChars
IsAlnum(c) == c \in AlnumChars

\* str.lower() of one character
LowerChar(c) == IF c \in UpperChars THEN Char(LowerAlpha, UpperIndex[c]) ELSE c

RECURSIVE MapLower(_)
MapLower(s) ==
    IF s = "" THEN "" ELSE LowerChar(Char(s, 1)) \o MapLower(SubSeq(s, 2, Len(s)))

\* str.lower()
Lower(s) == MapLower(s)

\* str.strip()
Strip(s) ==
    LET keep == {i \in 1..Len(s) : ~IsSpace(Char(s, i))}
    IN IF keep = {} THEN ""
       ELSE LET lo == CHOOSE i \in keep : \A j \in keep : i <= j
                hi == CHOOSE i \in keep : \A j \in keep : j <= i
            IN SubSeq(s, lo, hi)

\* a in b, for str
Contains(a, b) ==
    \E i \in 1..(Len(b) - Len(a) + 1) : SubSeq(b, i, i + Len(a) - 1) = a

\* a < b for str: code-point order, as Python and the store's binary string
\* comparison both have it
RECURSIVE StrLess(_, _)
StrLess(a, b) ==
    IF b = "" THEN FALSE
    ELSE IF a = "" THEN TRUE
    ELSE IF Char(a, 1) = Char(b, 1)
         THEN StrLess(SubSeq(a, 2, Len(a)), SubSeq(b, 2, Len(b)))
         ELSE Ord[Char(a, 1)] < Ord[Char(b, 1)]

(***************************************************************************)
(* Python dict / BSON document                                             *)
(***************************************************************************)
Has(h, f) == f \in DOMAIN h
\* dict.get(f, default)
Get(h, f, default) == IF Has(h, f) THEN h[f] ELSE default
\* h[f] = v
Put(h, f, v) == (f :> v) @@ h

\* The values of a sequence
Range(s) == {s[i] : i \in 1..Len(s)}

(***************************************************************************)
(* datetime                                                                *)
(***************************************************************************)
\* datetime.min: before every datetime of the model
DatetimeMin == -1000000
\* timedelta(days=60)
TbdMaxAgeDays == 60
SixtyDays == TbdMaxAgeDays * 2

\* datetime.date(): the calendar date of a datetime of June 2026
DateOf(t) == [y |-> 2026, m |-> 6, d |-> t \div 2]

DigitStr(n) == Char(Digits, n + 1)
Pad2(n) == DigitStr((n \div 10) % 10) \o DigitStr(n % 10)
Pad4(n) == Pad2(n \div 100) \o Pad2(n % 100)

\* strftime('%Y-%m-%d')
Strftime(date) == Pad4(date.y) \o "-" \o Pad2(date.m) \o "-" \o Pad2(date.d)

\* date1 >= date2
DateGeq(a, b) ==
    \/ a.y > b.y
    \/ a.y = b.y /\ a.m > b.m
    \/ a.y = b.y /\ a.m = b.m /\ a.d >= b.d

DigitVal(c) == DigitIndex[c] - 1
AllDigits(s) == \A i \in 1..Len(s) : IsDigit(Char(s, i))
Num2(s) == IF Len(s) = 1 THEN DigitVal(s)
           ELSE 10 * DigitVal(Char(s, 1)) + DigitVal(Char(s, 2))
Num4(s) == 100 * Num2(SubSeq(s, 1, 2)) + Num2(SubSeq(s, 3, 4))

IsLeap(y) == (y % 4 = 0 /\ y % 100 # 0) \/ y % 400 = 0
DaysInMonth(y, m) ==
    IF m = 2 THEN (IF IsLeap(y) THEN 29 ELSE 28)
    ELSE IF m \in {4, 6, 9, 11} THEN 30 ELSE 31

\* The %m directive: 1[0-2] | 0[1-9] | [1-9]
MonthField(s) ==
    /\ Len(s) \in {1, 2} /\ AllDigits(s)
    /\ Num2(s) \in 1..12
    /\ Len(s) = 1 => s # "0"
\* The %d directive: 3[01] | [12]\d | 0[1-9] | [1-9] | " "[1-9]
DayField(s) ==
    \/ Len(s) \in {1, 2} /\ AllDigits(s) /\ Num2(s) \in 1..31
    \/ Len(s) = 2 /\ Char(s, 1) = " " /\ IsDigit(Char(s, 2)) /\ Char(s, 2) # "0"
DayValue(s) == IF Char(s, 1) = " " THEN DigitVal(Char(s, 2)) ELSE Num2(s)

\* The ways to read s as %Y-%m-%d: <<end of month field, date>>
StrptimeReadings(s) ==
    {<<k, [y |-> Num4(SubSeq(s, 1, 4)),
           m |-> Num2(SubSeq(s, 6, k)),
           d |-> DayValue(SubSeq(s, k + 2, Len(s)))]>> :
        k \in {k \in 6..7 :
                 /\ Len(s) >= k + 2
                 /\ AllDigits(SubSeq(s, 1, 4))
                 /\ Char(s, 5) = "-"
                 /\ MonthField(SubSeq(s, 6, k))
                 /\ Char(s, k + 1) = "-"
                 /\ DayField(SubSeq(s, k + 2, Len(s)))}}

NoDate == [y |-> 0, m |-> 0, d |-> 0]

\* date.toordinal(): days since the day before 0001-01-01
RECURSIVE DaysBeforeMonth(_, _)
DaysBeforeMonth(y, m) ==
    IF m = 1 THEN 0 ELSE DaysBeforeMonth(y, m - 1) + DaysInMonth(y, m - 1)
Toordinal(date) ==
    LET y == date.y - 1
    IN 365 * y + (y \div 4) - (y \div 100) + (y \div 400)
       + DaysBeforeMonth(date.y, date.m) + date.d

\* datetime.isoformat() of a datetime with no microseconds
Isoformat(t) ==
    Strftime(DateOf(t)) \o (IF t % 2 = 0 THEN "T00:00:00" ELSE "T12:00:00")

\* datetime.strptime(s, '%Y-%m-%d').date(), or NoDate where it raises
\* ValueError (no match, unconverted data, or no such calendar day)
Strptime(s) ==
    LET ok == {r \in StrptimeReadings(s) :
                 r[2].y >= 1 /\ r[2].d <= DaysInMonth(r[2].y, r[2].m)}
    IN IF ok = {} THEN NoDate ELSE (CHOOSE r \in ok : TRUE)[2]


(***************************************************************************)
(* The strings the model draws titles and URLs from                        *)
(***************************************************************************)
\* Stored titles: two that differ by case and trailing space, one unrelated
DedupTitles == {"Ab", "ab ", "Cd"}
\* Stored URLs: two that differ by trailing space, and a placeholder
DedupUrls == {"u", "u ", "N/A"}
\* Stored titles of which one contains another once cleaned
SimilarTitleSet == {"Ab", "Ab-2", "Cd"}
ExpiryTitles == {"T1", "T2", "T3"}
ExpiryUrls == {"https://t1", "https://t2", "https://t3"}

\* Titles and URLs of the candidates of a cycle and of the documents it finds
CycleTitles == {"Ab", "ab", "ab ", "A.", "A(", "Cd", "Zz"}
CycleUrls == {"u", "v", "w"}
\* Stored titles of which each contains the one before once cleaned, and
\* one that is blank
LoopTitles == {"Ab", "Ab-2", "Ab-21", " "}
\* Titles and URLs of the documents of a list view, all different
ListTitles == {"T" \o DigitStr(i) : i \in 1..(MaxListStore + 1)}
ListUrls == {"https://t" \o DigitStr(i) : i \in 1..(MaxListStore + 1)}
Titles ==
    DedupTitles \cup SimilarTitleSet \cup ExpiryTitles \cup CycleTitles
    \cup ListTitles \cup LoopTitles \cup {""}
Urls == DedupUrls \cup ExpiryUrls \cup CycleUrls \cup ListUrls \cup {""}

(***************************************************************************)
(* The record store (pymongo Collection)                                   *)
(***************************************************************************)
\* A value that is not a str (a JSON number, null, ...) is written as its
\* literal after the marker "#"; every other value is a str.
IsStr(v) == v = "" \/ Char(v, 1) # "#"

\* delete_many(filter): the documents that stay, in natural order
DeleteMany(s, Matches(_)) == SelectSeq(s, LAMBDA h : ~Matches(h))

\* A variant of ExpiredFilter with $lte in place of $lt
ExpiredFilter_Lte(h, current_date) ==
    /\ Has(h, "end_date")
    /\ IsStr(h.end_date)
    /\ ~StrLess(current_date, h.end_date)
    /\ h.end_date # "TBD"

\* {"end_date": {"$lt": current_date, "$ne": "TBD"}}: $lt compares a str
\* only with a str, by code points
ExpiredFilter(h, current_date) ==
    /\ Has(h, "end_date")
    /\ IsStr(h.end_date)
    /\ StrLess(h.end_date, current_date)
    /\ h.end_date # "TBD"

\* A variant of OldTbdFilter with $gt in place of $lt
OldTbdFilter_Gt(h, threshold) ==
    /\ Has(h, "end_date")
    /\ h.end_date = "TBD"
    /\ Has(h, "scraped_at")
    /\ h.scraped_at > threshold

\* {"end_date": "TBD", "scraped_at": {"$lt": threshold}}
OldTbdFilter(h, threshold) ==
    /\ Has(h, "end_date")
    /\ h.end_date = "TBD"
    /\ Has(h, "scraped_at")
    /\ h.scraped_at < threshold

\* datetime.now(): the naive local wall clock
LocalNow == now + tz

\* remove_expired_hackathons() as it would be if it set the end_date of a
\* document that is past its date to "TBD" and left it in the store
RemoveExpired_Repairs(s, localNow) ==
    LET current_date == Strftime(DateOf(localNow))
        s1 == [i \in DOMAIN s |->
                  IF ExpiredFilter(s[i], current_date)
                  THEN [s[i] EXCEPT !.end_date = "TBD"] ELSE s[i]]
        s2 == DeleteMany(s1, LAMBDA h : OldTbdFilter(h, localNow - SixtyDays))
    IN [store |-> s2, count |-> Len(s) - Len(s2)]
\* remove_expired_hackathons(), with no other writer in between:
\* the store it leaves and the count it returns
RemoveExpired(s, localNow) ==
    LET current_date == Strftime(DateOf(localNow))
        current_datetime == localNow
        s1 == DeleteMany(s, LAMBDA h : ExpiredFilter(h, current_date))
        s2 == DeleteMany(s1, LAMBDA h : OldTbdFilter(h, current_datetime - SixtyDays))
    IN [store |-> s2, count |-> (Len(s) - Len(s1)) + (Len(s1) - Len(s2))]

\* title.lower().strip()
LowerStrip(title) == Strip(Lower(title))
\* url.strip()
StripUrl(url) == Strip(url)
\* The same, worked out once for every title and URL of the model
LowerStripOf == [t \in Titles |-> LowerStrip(t)]
StripUrlOf == [u \in Urls |-> StripUrl(u)]

\* hackathon.get('title', '').lower().strip()
TitleKey(h) == LowerStripOf[Get(h, "title", "")]
\* A variant of UrlKey that does not strip
UrlKey_NoStrip(h) == Get(h, "website_url", "")
\* hackathon.get('website_url', '').strip()
UrlKey(h) == StripUrlOf[Get(h, "website_url", "")]
\* url and url not in ['', 'N/A', 'TBD']
UrlCounts(url) == url # "" /\ url \notin {"", "N/A", "TBD"}
ScrapedAt(h) == Get(h, "scraped_at", DatetimeMin)

EmptyDict == [k \in {} |-> 0]

\* Method 1, the loop: seen_titles maps a title to the document kept for
\* it, title_duplicates lists the _ids to delete
RECURSIVE ScanTitles(_, _, _, _)
ScanTitles(all, i, seen_titles, title_duplicates) ==
    IF i > Len(all) THEN title_duplicates
    ELSE LET hackathon == all[i]
             title_lower == TitleKey(hackathon)
         IN IF title_lower \in DOMAIN seen_titles
            THEN LET existing == seen_titles[title_lower]
                 IN IF ScrapedAt(hackathon) < ScrapedAt(existing)
                    THEN ScanTitles(all, i + 1, seen_titles,
                                    Append(title_duplicates, hackathon._id))
                    ELSE ScanTitles(all, i + 1,
                                    Put(seen_titles, title_lower, hackathon),
                                    Append(title_duplicates, existing._id))
            ELSE ScanTitles(all, i + 1,
                            Put(seen_titles, title_lower, hackathon),
                            title_duplicates)
\* The loop as it would be if it listed every document whose title it
\* meets twice
TitleDuplicates_All(all) ==
    LET twice == SelectSeq(all, LAMBDA h :
                     \E i \in 1..Len(all) :
                         all[i]._id # h._id /\ TitleKey(all[i]) = TitleKey(h))
    IN [i \in 1..Len(twice) |-> twice[i]._id]
\* The loop as it would be if, of documents scraped at the same time, it
\* kept the one it met first
TitleDuplicates_FirstOnTie(all) ==
    LET beaten == SelectSeq(all, LAMBDA h :
                      \E i \in 1..Len(all) :
                          /\ all[i]._id # h._id /\ TitleKey(all[i]) = TitleKey(h)
                          /\ \/ ScrapedAt(all[i]) > ScrapedAt(h)
                             \/ ScrapedAt(all[i]) = ScrapedAt(h) /\ all[i]._id < h._id)
    IN [i \in 1..Len(beaten) |-> beaten[i]._id]
TitleDuplicates(all) == ScanTitles(all, 1, EmptyDict, <<>>)

\* Method 2, the loop
RECURSIVE ScanUrls(_, _, _, _)
ScanUrls(all, i, seen_urls, url_duplicates) ==
    IF i > Len(all) THEN url_duplicates
    ELSE LET hackathon == all[i]
             url == UrlKey(hackathon)
         IN IF ~UrlCounts(url)
            THEN ScanUrls(all, i + 1, seen_urls, url_duplicates)
            ELSE IF url \in DOMAIN seen_urls
                 THEN LET existing == seen_urls[url]
                      IN IF ScrapedAt(hackathon) < ScrapedAt(existing)
                         THEN ScanUrls(all, i + 1, seen_urls,
                                       Append(url_duplicates, hackathon._id))
                         ELSE ScanUrls(all, i + 1,
                                       Put(seen_urls, url, hackathon),
                                       Append(url_duplicates, existing._id))
                 ELSE ScanUrls(all, i + 1, Put(seen_urls, url, hackathon),
                               url_duplicates)
\* The loop as it would be if it kept the document it met first
UrlDuplicates_KeepFirst(all) ==
    LET later == SelectSeq(all, LAMBDA h :
                     /\ UrlCounts(UrlKey(h))
                     /\ \E i \in 1..Len(all) :
                           all[i]._id < h._id /\ UrlKey(all[i]) = UrlKey(h))
    IN [i \in 1..Len(later) |-> later[i]._id]
UrlDuplicates(all) == ScanUrls(all, 1, EmptyDict, <<>>)

\* ''.join(c for c in title if c.isalnum() or c.isspace()).strip()
RECURSIVE KeepAlnumSpace(_)
KeepAlnumSpace(s) ==
    IF s = "" THEN ""
    ELSE LET c == Char(s, 1)
         IN (IF IsAlnum(c) \/ IsSpace(c) THEN c ELSE "")
            \o KeepAlnumSpace(SubSeq(s, 2, Len(s)))
\* clean_title, from title.lower().strip()
CleanTitle(title_lower) == Strip(KeepAlnumSpace(title_lower))

\* The two titles are both non-empty and one cleaned title contains the other
SimilarTitles(title1, title2) ==
    /\ title1 # "" /\ title2 # ""
    /\ \/ Contains(CleanTitle(title1), CleanTitle(title2))
       \/ Contains(CleanTitle(title2), CleanTitle(title1))
\* The same, worked out once for every pair of titles of the model
SimilarPairs ==
    {p \in Titles \X Titles : SimilarTitles(LowerStrip(p[1]), LowerStrip(p[2]))}
Similar(h1, h2) == <<Get(h1, "title", ""), Get(h2, "title", "")>> \in SimilarPairs

\* len(description) + (1000 if scraped_at > the other's else 0)
NewerBonus == 1000
Score(h, other) ==
    Len(Get(h, "description", ""))
    + (IF ScrapedAt(h) > ScrapedAt(other) THEN NewerBonus ELSE 0)

\* The body of the loops as it would be if it let both documents of a
\* pair with equal scores be
SimilarChoice_TieSpared(h1, h2, similar_duplicates) ==
    IF ~Similar(h1, h2) \/ Score(h1, h2) = Score(h2, h1) THEN 0
    ELSE IF Score(h1, h2) < Score(h2, h1) /\ h1._id \notin Range(similar_duplicates)
         THEN h1._id
         ELSE IF h2._id \notin Range(similar_duplicates) THEN h2._id ELSE 0
\* Method 3, the body of the loops: the _id the pair (h1, h2) appends to
\* similar_duplicates, 0 where it appends none
SimilarChoice(h1, h2, similar_duplicates) ==
    IF ~Similar(h1, h2) THEN 0
    ELSE IF Score(h1, h2) < Score(h2, h1) /\ h1._id \notin Range(similar_duplicates)
         THEN h1._id
         ELSE IF h2._id \notin Range(similar_duplicates) THEN h2._id ELSE 0
Scheduled(similar_duplicates, id) ==
    IF id = 0 THEN similar_duplicates ELSE Append(similar_duplicates, id)

\* Method 3: similar_duplicates, over the pairs i < j in iteration order
RECURSIVE ScanSimilar(_, _, _, _)
ScanSimilar(all, i, j, dups) ==
    IF i > Len(all) THEN dups
    ELSE IF j > Len(all) THEN ScanSimilar(all, i + 1, i + 2, dups)
    ELSE ScanSimilar(all, i, j + 1,
                     Scheduled(dups, SimilarChoice(all[i], all[j], dups)))
SimilarDuplicates(all) == ScanSimilar(all, 1, 2, <<>>)

\* One pass: find() the snapshot, collect the _ids, delete_many them
TitlePass(s) ==
    LET title_duplicates == Range(TitleDuplicates(s))
    IN DeleteMany(s, LAMBDA h : h._id \in title_duplicates)
UrlPass(s) ==
    LET url_duplicates == Range(UrlDuplicates(s))
    IN DeleteMany(s, LAMBDA h : h._id \in url_duplicates)
SimilarPass(s) ==
    LET similar_duplicates == Range(SimilarDuplicates(s))
    IN DeleteMany(s, LAMBDA h : h._id \in similar_duplicates)

\* The handler as it would be if it returned after the first pass that
\* removed something
RemoveDuplicates_OnePass(s) ==
    LET s1 == TitlePass(s)
        s2 == UrlPass(s)
        s3 == SimilarPass(s)
    IN IF Len(s1) < Len(s) THEN [store |-> s1, count |-> Len(s) - Len(s1)]
       ELSE IF Len(s2) < Len(s) THEN [store |-> s2, count |-> Len(s) - Len(s2)]
       ELSE [store |-> s3, count |-> Len(s) - Len(s3)]
\* remove_duplicates(), with no other writer in between: the store it
\* leaves and the total_removed it returns
RemoveDuplicates(s) ==
    LET s1 == TitlePass(s)
        s2 == UrlPass(s1)
        s3 == SimilarPass(s2)
    IN [store |-> s3,
        count |-> (Len(s) - Len(s1)) + (Len(s1) - Len(s2)) + (Len(s2) - Len(s3))]


(***************************************************************************)
(* parse_hackathon_data: extracting the array text                         *)
(***************************************************************************)
\* The model writes ~ for the backquote, which a TLA+ string cannot hold
Fence == "~~~"
FenceJson == "~~~json"

\* s[a-1:b] of Python, 1-based and inclusive here: a slice never raises
Slice(s, a, b) ==
    IF a > Len(s) \/ b < a THEN "" ELSE SubSeq(s, a, IF b > Len(s) THEN Len(s) ELSE b)

\* str.startswith
StartsWith(s, prefix) == Len(s) >= Len(prefix) /\ SubSeq(s, 1, Len(prefix)) = prefix

\* The least member of a non-empty set of positions
Least(at) == CHOOSE i \in at : \A j \in at : i <= j

\* A text is searched a stretch of 16 positions at a time: where the
\* stretch that starts at i ends
StretchEnd(i, last) == IF i + 15 < last THEN i + 15 ELSE last

\* The first position from i on where old occurs in s, 0 if there is none
RECURSIVE FirstAt(_, _, _)
FirstAt(s, old, i) ==
    LET last == Len(s) - Len(old) + 1
        stop == StretchEnd(i, last)
        at == {j \in i..stop : SubSeq(s, j, j + Len(old) - 1) = old}
    IN IF i > last THEN 0
       ELSE IF at # {} THEN Least(at)
       ELSE FirstAt(s, old, stop + 1)

\* str.replace(old, new), old non-empty: the occurrences from position i on
RECURSIVE ReplaceFrom(_, _, _, _)
ReplaceFrom(s, old, new, i) ==
    LET at == FirstAt(s, old, i)
    IN IF at = 0 THEN SubSeq(s, i, Len(s))
       ELSE SubSeq(s, i, at - 1) \o new \o ReplaceFrom(s, old, new, at + Len(old))
Replace(s, old, new) == ReplaceFrom(s, old, new, 1)

\* str.find(c) and str.rfind(c) for one character, 1-based; 0 stands for -1
Find(s, c) ==
    LET at == {i \in 1..Len(s) : Char(s, i) = c}
    IN IF at = {} THEN 0 ELSE Least(at)
RFind(s, c) ==
    LET at == {i \in 1..Len(s) : Char(s, i) = c}
    IN IF at = {} THEN 0 ELSE CHOOSE i \in at : \A j \in at : j <= i

\* The first position from i on that holds no whitespace
RECURSIVE SkipWs(_, _)
SkipWs(s, i) == IF i <= Len(s) /\ IsSpace(Char(s, i)) THEN SkipWs(s, i + 1) ELSE i

\* The end of the word that starts at i
RECURSIVE WordEnd(_, _)
WordEnd(s, i) ==
    LET stop == StretchEnd(i, Len(s))
        at == {j \in i..stop : IsSpace(Char(s, j))}
    IN IF i > Len(s) THEN i
       ELSE IF at # {} THEN Least(at)
       ELSE WordEnd(s, stop + 1)

\* ' '.join(s.split()): the words of s from i on, one space between them
RECURSIVE JoinWords(_, _, _)
JoinWords(s, i, first) ==
    LET start == SkipWs(s, i)
        stop == WordEnd(s, start)
    IN IF start > Len(s) THEN ""
       ELSE (IF first THEN "" ELSE " ") \o SubSeq(s, start, stop - 1)
            \o JoinWords(s, stop, FALSE)
JoinSplit(s) == JoinWords(s, 1, TRUE)

NotFound == [found |-> FALSE, text |-> ""]

\* Method 1: remove markdown code blocks
Unfence(clean_data) ==
    IF StartsWith(clean_data, FenceJson)
    THEN Strip(Replace(Replace(clean_data, FenceJson, ""), Fence, ""))
    ELSE IF StartsWith(clean_data, Fence)
         THEN Strip(Replace(clean_data, Fence, ""))
         ELSE clean_data

\* Method 2 as it would be if it closed an array that was cut short
SliceArray_Closing(clean_data) ==
    LET start_idx == Find(clean_data, "[")
    IN IF start_idx # 0
       THEN [found |-> TRUE,
             text |-> SubSeq(clean_data, start_idx, Len(clean_data)) \o "]"]
       ELSE NotFound

\* Method 2: find the array in the response
SliceArray(clean_data) ==
    IF StartsWith(clean_data, "[") THEN [found |-> TRUE, text |-> clean_data]
    ELSE LET start_idx == Find(clean_data, "[")
             end_idx == RFind(clean_data, "]")
         IN IF start_idx # 0 /\ end_idx # 0
            THEN [found |-> TRUE, text |-> SubSeq(clean_data, start_idx, end_idx)]
            ELSE NotFound

\* Method 3 without its second line
Normalize_NewlinesOnly(clean_data) ==
    Replace(Replace(clean_data, "\n", " "), "\r", " ")
\* Method 3: clean up newlines and repeated whitespace
Normalize(clean_data) ==
    JoinSplit(Replace(Replace(clean_data, "\n", " "), "\r", " "))

\* The text handed to json.loads, or NotFound where the function has
\* returned [] before
Extract(raw_data) ==
    LET clean_data == Strip(raw_data)
    IN IF clean_data = "" \/ clean_data = "[]" THEN NotFound
       ELSE LET sliced == SliceArray(Unfence(clean_data))
            IN IF sliced.found
               THEN [found |-> TRUE, text |-> Normalize(sliced.text)]
               ELSE NotFound

(***************************************************************************)
(* json.loads, for the JSON the model's responses are written in: arrays,  *)
(* objects whose members are scalars, strings without escapes, integers,   *)
(* true, false, null.  A parsed value is [t |-> type, v |-> value]; inside *)
(* an object a str member is the string itself and any other scalar is     *)
(* its literal after "#".                                                  *)
(***************************************************************************)
JsonFail == [ok |-> FALSE, t |-> "", v |-> "", next |-> 0]
JsonOk(t, v, next) == [ok |-> TRUE, t |-> t, v |-> v, next |-> next]

\* The end of the run of digits that starts at i
RECURSIVE DigitsEnd(_, _)
DigitsEnd(s, i) == IF i <= Len(s) /\ IsDigit(Char(s, i)) THEN DigitsEnd(s, i + 1) ELSE i

\* Where the string that holds position i ends: at its closing quote, at
\* a backslash (escapes are not among the texts), or past the text
RECURSIVE StringEnd(_, _)
StringEnd(s, i) ==
    LET stop == StretchEnd(i, Len(s))
        at == {j \in i..stop : Char(s, j) \in {"\"", "\\"}}
    IN IF i > Len(s) THEN i
       ELSE IF at # {} THEN Least(at)
       ELSE StringEnd(s, stop + 1)

\* A string literal whose opening quote is at i
JsonString(s, i) ==
    LET k == StringEnd(s, i + 1)
    IN IF k > Len(s) \/ Char(s, k) # "\"" THEN JsonFail
       ELSE JsonOk("str", SubSeq(s, i + 1, k - 1), k + 1)

\* A scalar that starts at i
JsonScalar(s, i) ==
    LET c == Char(s, i)
    IN IF c = "\"" THEN JsonString(s, i)
       ELSE IF Slice(s, i, i + 3) = "null" THEN JsonOk("null", "#null", i + 4)
       ELSE IF Slice(s, i, i + 3) = "true" THEN JsonOk("bool", "#true", i + 4)
       ELSE IF Slice(s, i, i + 4) = "false" THEN JsonOk("bool", "#false", i + 5)
       ELSE IF IsDigit(c)
            THEN LET e == DigitsEnd(s, i)
                 IN IF c = "0" /\ e > i + 1 THEN JsonFail
                    ELSE JsonOk("num", "#" \o SubSeq(s, i, e - 1), e)
            ELSE JsonFail

\* The members of an object, the next one starting at i
RECURSIVE JsonMembers(_, _, _)
JsonMembers(s, i, dict) ==
    LET k == JsonString(s, i)
        colon == SkipWs(s, k.next)
        val == JsonScalar(s, SkipWs(s, colon + 1))
        after == SkipWs(s, val.next)
    IN IF i > Len(s) \/ Char(s, i) # "\"" \/ ~k.ok THEN JsonFail
       ELSE IF colon > Len(s) \/ Char(s, colon) # ":" THEN JsonFail
       ELSE IF SkipWs(s, colon + 1) > Len(s) \/ ~val.ok THEN JsonFail
       ELSE IF after > Len(s) THEN JsonFail
       ELSE IF Char(s, after) = "}"
            THEN JsonOk("dict", Put(dict, k.v, val.v), after + 1)
       ELSE IF Char(s, after) = ","
            THEN JsonMembers(s, SkipWs(s, after + 1), Put(dict, k.v, val.v))
       ELSE JsonFail

JsonObject(s, i) ==
    LET j == SkipWs(s, i + 1)
    IN IF j > Len(s) THEN JsonFail
       ELSE IF Char(s, j) = "}" THEN JsonOk("dict", EmptyDict, j + 1)
       ELSE JsonMembers(s, j, EmptyDict)

RECURSIVE JsonValue(_, _)
\* The elements of an array, the next one starting at i
RECURSIVE JsonElements(_, _, _)
JsonElements(s, i, list) ==
    LET val == JsonValue(s, i)
        after == SkipWs(s, val.next)
        item == [t |-> val.t, v |-> val.v]
    IN IF i > Len(s) \/ ~val.ok THEN JsonFail
       ELSE IF after > Len(s) THEN JsonFail
       ELSE IF Char(s, after) = "]"
            THEN JsonOk("list", Append(list, item), after + 1)
       ELSE IF Char(s, after) = ","
            THEN JsonElements(s, SkipWs(s, after + 1), Append(list, item))
       ELSE JsonFail

JsonArray(s, i) ==
    LET j == SkipWs(s, i + 1)
    IN IF j > Len(s) THEN JsonFail
       ELSE IF Char(s, j) = "]" THEN JsonOk("list", <<>>, j + 1)
       ELSE JsonElements(s, j, <<>>)

JsonValue(s, i) ==
    IF i > Len(s) THEN JsonFail
    ELSE IF Char(s, i) = "{" THEN JsonObject(s, i)
    ELSE IF Char(s, i) = "[" THEN JsonArray(s, i)
    ELSE JsonScalar(s, i)

\* A decoder that stops reading at the end of the first value
JsonLoads_Lenient(s) ==
    LET val == JsonValue(s, SkipWs(s, 1))
    IN IF val.ok
       THEN [ok |-> TRUE, t |-> val.t, v |-> val.v]
       ELSE [ok |-> FALSE, t |-> "", v |-> ""]
\* json.loads(s): ok is FALSE where it raises JSONDecodeError
JsonLoads(s) ==
    LET val == JsonValue(s, SkipWs(s, 1))
    IN IF val.ok /\ SkipWs(s, val.next) > Len(s)
       THEN [ok |-> TRUE, t |-> val.t, v |-> val.v]
       ELSE [ok |-> FALSE, t |-> "", v |-> ""]

(***************************************************************************)
(* parse_hackathon_data: limit, metadata, end_date validation, sort        *)
(***************************************************************************)
Source == "gemini_search"
DefaultSortKey == "9999-12-31"

\* The list as it would be without the cut
Truncate_All(list, n) == list
\* hackathons[:limit]
Truncate(list, n) == SubSeq(list, 1, IF n < Len(list) THEN n ELSE Len(list))

\* Add metadata
Stamp(hackathon, current_date) ==
    Put(Put(hackathon, "scraped_at", current_date), "source", Source)

Keep(hackathon) == [outcome |-> "keep", doc |-> hackathon]
Drop == [outcome |-> "drop", doc |-> EmptyDict]
Raise == [outcome |-> "raise", doc |-> EmptyDict]

\* The except clause of the date check: len() of a value that is no str
\* raises in turn, and nothing around the loop catches it
DateParseIssue(hackathon) ==
    IF ~IsStr(hackathon.end_date) THEN Raise
    ELSE IF Len(hackathon.end_date) >= 10 THEN Keep(hackathon)
    ELSE Drop

\* The try block of the date check, parsed_date being what strptime gave
CheckDate(hackathon, parsed_date, current_date) ==
    IF parsed_date = NoDate THEN DateParseIssue(hackathon)
    ELSE IF DateGeq(parsed_date, DateOf(current_date))
         THEN Keep(Put(hackathon, "end_date", Strftime(parsed_date)))
         ELSE Drop

\* Validate and clean end_date
ValidateEndDate(hackathon, current_date) ==
    IF Has(hackathon, "end_date") /\ hackathon.end_date # "TBD"
    THEN IF ~IsStr(hackathon.end_date) THEN DateParseIssue(hackathon)
         ELSE CheckDate(hackathon, Strptime(Slice(hackathon.end_date, 1, 10)),
                        current_date)
    ELSE Keep(hackathon)

\* One round of the loop: an element that is no dict has no get()
ValidateOne(item, current_date) ==
    IF item.t # "dict" THEN Raise
    ELSE ValidateEndDate(Stamp(item.v, current_date), current_date)

\* The loop over the candidates from the i-th on; r is what the round
\* for the i-th came to
RECURSIVE ValidateFrom(_, _, _, _)
RECURSIVE ValidateNext(_, _, _, _, _)
ValidateNext(items, i, current_date, valid_hackathons, r) ==
    IF r.outcome = "raise" THEN [exc |-> TRUE, ret |-> <<>>]
    ELSE ValidateFrom(items, i + 1, current_date,
                      IF r.outcome = "keep"
                      THEN Append(valid_hackathons, r.doc)
                      ELSE valid_hackathons)
ValidateFrom(items, i, current_date, valid_hackathons) ==
    IF i > Len(items) THEN [exc |-> FALSE, ret |-> valid_hackathons]
    ELSE ValidateNext(items, i, current_date, valid_hackathons,
                      ValidateOne(items[i], current_date))

SortKey(x) == Get(x, "end_date", DefaultSortKey)

\* list.sort(key, reverse=True): descending, equal keys in their old order
RECURSIVE SortInsert(_, _)
SortInsert(sorted, x) ==
    IF sorted = <<>> THEN <<x>>
    ELSE IF StrLess(SortKey(Head(sorted)), SortKey(x)) THEN <<x>> \o sorted
    ELSE <<Head(sorted)>> \o SortInsert(Tail(sorted), x)
RECURSIVE SortFrom(_, _, _)
SortFrom(list, i, sorted) ==
    IF i > Len(list) THEN sorted
    ELSE SortFrom(list, i + 1, SortInsert(sorted, list[i]))
SortByEndDate(list) == SortFrom(list, 1, <<>>)

Returns(list) == [exc |-> FALSE, ret |-> list]

\* After the loop: sort and return, unless the loop raised
Validated(checked) ==
    IF checked.exc THEN checked ELSE Returns(SortByEndDate(checked.ret))

\* After json.loads: the list check, the limit, the loop
Loaded(loaded, n, current_date) ==
    IF ~loaded.ok THEN Returns(<<>>)
    ELSE IF loaded.t # "list" THEN Returns(<<>>)
    ELSE Validated(ValidateFrom(Truncate(loaded.v, n), 1, current_date, <<>>))

\* After the extraction: json.loads
Extracted(clean_data, n, current_date) ==
    IF ~clean_data.found THEN Returns(<<>>)
    ELSE Loaded(JsonLoads(clean_data.text), n, current_date)

\* The body of the outer try: what it returns, or that it raised
ParseBody(raw_data, n, current_date) ==
    Extracted(Extract(raw_data), n, current_date)

\* The parser as it would be without its outer except clauses
OuterExcept_Absent(body) == body
\* The outer except clauses, which catch everything the body raises
\* and return []
OuterExcept(body) == IF body.exc THEN Returns(<<>>) ELSE body
ParseHackathonData(raw_data, n, current_date) ==
    OuterExcept(ParseBody(raw_data, n, current_date))

(***************************************************************************)
(* The replies of the search service                                       *)
(***************************************************************************)
FieldOrder == <<"title", "website_url", "end_date", "description">>

JsonLiteral(v) == IF IsStr(v) THEN "\"" \o v \o "\"" ELSE Slice(v, 2, Len(v))

\* The members of an object from the i-th field of FieldOrder on
RECURSIVE MembersText(_, _, _)
MembersText(doc, i, first) ==
    IF i > Len(FieldOrder) THEN ""
    ELSE LET f == FieldOrder[i]
         IN IF Has(doc, f)
            THEN (IF first THEN "" ELSE ", ")
                 \o "\"" \o f \o "\": " \o JsonLiteral(doc[f])
                 \o MembersText(doc, i + 1, FALSE)
            ELSE MembersText(doc, i + 1, first)

\* An element is an object, given by its members, or another JSON value,
\* given by its literal
IsObject(e) == ~Has(e, "lit")
ElementText(e) == IF IsObject(e) THEN "{" \o MembersText(e, 1, TRUE) \o "}" ELSE e.lit

RECURSIVE ElementsText(_, _, _)
ElementsText(elems, i, sep) ==
    IF i > Len(elems) THEN ""
    ELSE (IF i = 1 THEN "" ELSE "," \o sep) \o ElementText(elems[i])
         \o ElementsText(elems, i + 1, sep)

ArrayText(elems, sep) == "[" \o ElementsText(elems, 1, sep) \o "]"

Styles == {"bare", "json-fence", "fence", "prose"}
\* The text of a reply
TextOf(r) ==
    IF r.style = "text" THEN r.text
    ELSE IF r.style = "bare" THEN ArrayText(r.elems, " ")
    ELSE IF r.style = "json-fence"
         THEN FenceJson \o "\n" \o ArrayText(r.elems, "\n  ") \o "\n" \o Fence \o "\n"
    ELSE IF r.style = "fence"
         THEN Fence \o "\r\n" \o ArrayText(r.elems, "\r\n") \o "\r\n" \o Fence
    ELSE "Here are the hackathons:\n" \o ArrayText(r.elems, " ") \o "\nGood luck!"

NoReply == [style |-> "text", text |-> "", elems |-> <<>>]
Array(style, elems) == [style |-> style, text |-> "", elems |-> elems]
Text(text) == [style |-> "text", text |-> text, elems |-> <<>>]

(***************************************************************************)
(* The DEDUP step: find_one with a $regex built from the candidate's title *)
(* and an equality on its website_url.  Titles are written over letters,   *)
(* digits, space, "-", ".", "(" and ")"; of these the regular expression   *)
(* reads "." as any character and the parentheses as a group.              *)
(***************************************************************************)
\* The nesting of parentheses after the pattern from i on, -1 where a ")"
\* closes nothing
RECURSIVE GroupDepth(_, _, _)
GroupDepth(pattern, i, depth) ==
    IF depth < 0 \/ i > Len(pattern) THEN depth
    ELSE GroupDepth(pattern, i + 1,
                    IF Char(pattern, i) = "(" THEN depth + 1
                    ELSE IF Char(pattern, i) = ")" THEN depth - 1
                    ELSE depth)

\* The server compiles the expression when it reads the query and rejects
\* the query if it cannot
RegexCompiles(title) == GroupDepth(title, 1, 0) = 0

\* {"$regex": "^title$", "$options": "i"} against a stored title
RegexMatches(title, stored) ==
    LET pattern == Replace(Replace(title, "(", ""), ")", "")
    IN /\ Len(pattern) = Len(stored)
       /\ \A i \in 1..Len(pattern) :
             \/ Char(pattern, i) = "." /\ Char(stored, i) # "\n"
             \/ /\ Char(pattern, i) # "."
                /\ LowerChar(Char(pattern, i)) = LowerChar(Char(stored, i))

\* One document against the $or of the query
MatchesQuery(h, hackathon) ==
    \/ Has(h, "title") /\ IsStr(h.title) /\ RegexMatches(hackathon.title, h.title)
    \/ Has(h, "website_url") /\ h.website_url = hackathon.website_url

\* find_one(query): it raises, or says whether a document matches
FindOne(s, hackathon) ==
    [raises |-> ~RegexCompiles(hackathon.title),
     existing |-> \E i \in 1..Len(s) : MatchesQuery(s[i], hackathon)]

\* A check that looks for the field only
Falsy_Absent(hackathon, f) == ~Has(hackathon, f)
\* not hackathon.get(f): the field is absent, null, or empty
Falsy(hackathon, f) ==
    ~Has(hackathon, f) \/ hackathon[f] \in {"", "#null", "#0", "#false"}

\* insert_many(docs): each document gets the next _id
InsertMany(s, docs, id) ==
    s \o [i \in 1..Len(docs) |-> Put(docs[i], "_id", id + i - 1)]

(***************************************************************************)
(* The states the model starts from                                        *)
(***************************************************************************)
\* The UTC clock at process start: 2026-06-15 00:00
StartNows == {30}
\* The process's UTC offset: -12 h, 0, +12 h
TzOffsets == {-1, 0, 1}

\* All sequences over S of length at most n
SeqsUpTo(S, n) == UNION {[1..k -> S] : k \in 0..n}

\* A store whose i-th document has _id i
WithIds(docs) == [i \in 1..Len(docs) |-> Put(docs[i], "_id", i)]

\* The optional field f, absent when v is the empty set
Opt(f, v) == IF v = {} THEN EmptyDict ELSE (f :> (CHOOSE x \in v : TRUE))
OptValues(S) == {{x} : x \in S} \cup {{}}

\* Documents that differ in what expiry reads: end_date and scraped_at
ExpiryEndDates ==
    {"2026-06-13", "2026-06-14", "2026-06-15", "2026-06-16", "TBD", "12/31/2099"}
ExpiryScrapedAts == {-92, -90, 28}
ExpiryDocs ==
    {Opt("end_date", e) @@ [scraped_at |-> t, source |-> "gemini_search"] :
        e \in OptValues(ExpiryEndDates), t \in ExpiryScrapedAts}
\* Stores of such documents, with pairwise different titles and URLs
ExpiryStores ==
    {[i \in 1..Len(docs) |->
        docs[i] @@ [_id |-> i, title |-> "T" \o DigitStr(i),
                    website_url |-> "https://t" \o DigitStr(i)]] :
        docs \in SeqsUpTo(ExpiryDocs, MaxExpiryStore)}

\* A date after every day the clock reaches
FutureDate == "2026-06-20"

\* Documents that differ in what the read routes do with them: the title,
\* an end_date of yesterday, of a later day or TBD, and the status
ReadDocs ==
    {[title |-> t, website_url |-> "N/A", end_date |-> e, status |-> st,
      scraped_at |-> 20] :
        t \in DedupTitles, e \in {"2026-06-14", FutureDate, "TBD"},
        st \in {"open", "Upcoming"}}
ReadStores == {WithIds(docs) : docs \in SeqsUpTo(ReadDocs, MaxReadStore)}

\* Documents that differ in what the list view sorts by: the status is
\* open, that in another case or another word, and the end_date is one of
\* two days to come or TBD; one document has neither field, and one has a
\* status that is null
ListStatuses == {"open", "Open", "Upcoming"}
ListEndDates == {FutureDate, "2026-07-01", "TBD"}
ListDocs ==
    {[status |-> st, end_date |-> e, scraped_at |-> 20] :
        st \in ListStatuses, e \in ListEndDates}
    \cup {[scraped_at |-> 20],
          [status |-> "#null", end_date |-> FutureDate, scraped_at |-> 20]}
ListStores ==
    {[i \in 1..Len(docs) |->
        docs[i] @@ [_id |-> i, title |-> "T" \o DigitStr(i),
                    website_url |-> "https://t" \o DigitStr(i)]] :
        docs \in SeqsUpTo(ListDocs, MaxListStore)}

\* Documents the update route is called on: one as the scraper stored it,
\* one that was edited before
UpdateDocs ==
    {[title |-> "Ab", website_url |-> "u", end_date |-> FutureDate,
      status |-> "open", scraped_at |-> 28, source |-> Source],
     [title |-> "Cd", website_url |-> "v", end_date |-> "TBD",
      scraped_at |-> 20, source |-> Source, organizer |-> "o",
      tags |-> <<"old">>, updated_at |-> 24]}
UpdateStores == {WithIds(docs) : docs \in SeqsUpTo(UpdateDocs, MaxUpdateStore)}
\* The ids a request names: those of the store, one it does not hold, and
\* one that is no ObjectId
RequestIds == {DigitStr(i) : i \in 1..(MaxUpdateStore + 1)} \cup {"zz"}
\* Forms: the title and the status are filled in or missing, the tags are
\* missing, empty or two with a space between them; every form carries an
\* end_date, which the route does not read
Forms ==
    {Opt("title", t) @@ Opt("status", st) @@ Opt("tags", tg)
     @@ [description |-> "d2", website_url |-> "w2", end_date |-> "2030-01-01"] :
        t \in OptValues({"New"}), st \in OptValues({"closed"}),
        tg \in OptValues({"", "a, b"})}

\* Documents that differ in what the similar-title loop reads: titles of
\* which each contains the one before once cleaned and one that is blank,
\* a description or none, an earlier or a later scraped_at
LoopDocs ==
    {[title |-> t, website_url |-> "N/A", scraped_at |-> at,
      end_date |-> "TBD", description |-> d] :
        t \in LoopTitles, d \in {"", "d"}, at \in {10, 20}}
\* Stores as the first two passes leave them: no title twice
LoopStores ==
    {WithIds(docs) :
        docs \in {d \in SeqsUpTo(LoopDocs, MaxSimilarStore) :
                     \A i, j \in 1..Len(d) : i # j => d[i].title # d[j].title}}

\* What a cycle is about to insert while maintenance runs: candidates of
\* which two have one title and two have one URL, validated and found new
RaceCandidates ==
    {[title |-> "Cd", website_url |-> "v", end_date |-> FutureDate],
     [title |-> "Cd", website_url |-> "w", end_date |-> FutureDate],
     [title |-> "Zz", website_url |-> "v", end_date |-> FutureDate]}
RaceBatches(current_date) ==
    {[i \in 1..Len(batch) |-> Stamp(batch[i], current_date)] :
        batch \in SeqsUpTo(RaceCandidates, MaxRaceBatch)}

\* Documents of which maintenance deletes some for their date, some for
\* their title or URL, and leaves others
MaintainDocs ==
    {[title |-> "Ab", website_url |-> "u", end_date |-> FutureDate,
      scraped_at |-> 28, description |-> "d"],
     [title |-> "ab ", website_url |-> "v", end_date |-> "TBD",
      scraped_at |-> 20, description |-> "d"],
     [title |-> "Cd", website_url |-> "u ", end_date |-> FutureDate,
      scraped_at |-> 20],
     [title |-> "Ab-2", website_url |-> "N/A", end_date |-> "TBD",
      scraped_at |-> 10, description |-> ""],
     [title |-> "Zz", website_url |-> "w", end_date |-> "2026-06-01",
      scraped_at |-> 0],
     [title |-> "T1", website_url |-> "https://t1", end_date |-> "TBD",
      scraped_at |-> -92]}
MaintainStores ==
    {WithIds(docs) : docs \in SeqsUpTo(MaintainDocs, MaxMaintainStore)}

\* Documents that differ in what the exact passes read
DedupScrapedAts == {10, 20}
DedupDocs ==
    {[title |-> t, website_url |-> u, scraped_at |-> at,
      end_date |-> "TBD", description |-> "d"] :
        t \in DedupTitles, u \in DedupUrls, at \in DedupScrapedAts}
\* Documents that differ in what the similar-title pass reads
SimilarDocs ==
    {[title |-> t, website_url |-> "N/A", scraped_at |-> at,
      end_date |-> "TBD", description |-> d] :
        t \in SimilarTitleSet, d \in {"", "d"}, at \in DedupScrapedAts}
DedupStores ==
    {WithIds(docs) : docs \in SeqsUpTo(DedupDocs, MaxDedupStore)
                             \cup SeqsUpTo(SimilarDocs, MaxDedupStore)}

\* Candidates that differ in what the validator reads: the element is an
\* object or not, and its end_date is absent, TBD, yesterday, today, later
\* with a time of day, short and no date, long and no date, or a number
ParseEndDates ==
    {"TBD", "2026-06-14", "2026-06-15", "2026-06-16T09:00",
     "soon", "12/31/2099", "#20261231"}
ParseKinds == ParseEndDates \cup {"absent", "nondict"}
ElementOf(kind, i) ==
    IF kind = "nondict" THEN [lit |-> "5"]
    ELSE [title |-> "T" \o DigitStr(i), website_url |-> "https://t" \o DigitStr(i)]
         @@ (IF kind = "absent" THEN EmptyDict ELSE [end_date |-> kind])
ParseBatches ==
    {[i \in 1..Len(kinds) |-> ElementOf(kinds[i], i)] :
        kinds \in SeqsUpTo(ParseKinds, MaxBatch)}
ParseStyles == {"bare", "json-fence"}
ParseReplies == {Array(style, elems) : style \in ParseStyles, elems \in ParseBatches}
Limits == 1..MaxBatch

\* What a cycle asks for and parses at most
CycleLimit == 15
MaxAttempts == 3
\* Candidates that differ in what DEDUP reads: the title is new, or a
\* stored title in another case, or that with a space after it, or holds
\* a character the regular expression reads specially; the URL is stored
\* or new; the title or the URL is missing, or the title is empty
CycleCandidates ==
    {[title |-> t, website_url |-> "v", end_date |-> FutureDate] :
        t \in {"ab", "ab ", "A.", "A(", "Cd"}}
    \cup {[title |-> t, website_url |-> "u", end_date |-> FutureDate] :
              t \in {"ab", "Cd"}}
    \cup {[title |-> "Cd", end_date |-> FutureDate],
          [website_url |-> "v", end_date |-> FutureDate],
          [title |-> "", website_url |-> "w", end_date |-> FutureDate]}
CycleStyles == {"fence", "prose"}
\* Replies that hold no JSON array: prose, an array cut short, an object,
\* an array followed by a reference in brackets, a word in brackets
Unparseable ==
    {"Sorry, I could not find any hackathons.",
     "[{\"title\": \"Cd\", \"website_url\": \"v\"",
     "{\"title\": \"Cd\", \"website_url\": \"v\"}",
     "Found: [{\"title\": \"Cd\", \"website_url\": \"v\"}] (source [1])",
     "[none]"}
\* A reply that is a JSON array of something that is no object
Malformed == {"[5]"}
CycleReplies ==
    {Array(style, elems) :
        style \in CycleStyles, elems \in SeqsUpTo(CycleCandidates, MaxCycleBatch)}
    \cup {Text(text) : text \in Unparseable \cup Malformed}
\* Texts that begin with a bracket: after it come numbers, commas, a
\* string with two spaces in it, closing brackets, and whitespace of every
\* kind, in any order
Pieces == {"1", ",", "]", "\"a  b\"", " ", "\n", "\r", "\t"}
RECURSIVE Concat(_)
Concat(pieces) ==
    IF pieces = <<>> THEN "" ELSE Head(pieces) \o Concat(Tail(pieces))
BareArrays == {"[" \o Concat(pieces) : pieces \in SeqsUpTo(Pieces, MaxPieces)}

\* Texts in which no "[" has a "]" anywhere after it: brackets the wrong
\* way round, an array cut short, an object on its own, fences, prose
BracketPieces ==
    {"[", "]", "{\"title\": \"T\"}", ",", " ", "~~~json", "~~~", "See"}
HasBracketPair(s) ==
    \E i \in 1..Len(s) : \E j \in (i + 1)..Len(s) :
        Char(s, i) = "[" /\ Char(s, j) = "]"
Unbalanced ==
    {t \in {Concat(pieces) : pieces \in SeqsUpTo(BracketPieces, MaxPieces)} :
        ~HasBracketPair(t)}

\* The search service of a process with two threads: it gives one
\* candidate, or that one after one with its URL, or one whose title is no
\* regular expression
ThreadReplies ==
    {Array("fence", elems) :
        elems \in {<<[title |-> "Cd", website_url |-> "v", end_date |-> FutureDate]>>,
                   <<[title |-> "ab", website_url |-> "v", end_date |-> FutureDate],
                     [title |-> "Cd", website_url |-> "v", end_date |-> FutureDate]>>,
                   <<[title |-> "A(", website_url |-> "v", end_date |-> FutureDate]>>}}

\* Replies of one candidate that differ in its end_date: today by the UTC
\* clock, tomorrow, a date in another notation, TBD, or none
DatedEndDates == {"2026-06-15", "2026-06-16", "12/31/2099", "TBD"}
DatedCandidates ==
    {[title |-> "Cd", website_url |-> "v"] @@ Opt("end_date", e) :
        e \in OptValues(DatedEndDates)}
DatedReplies ==
    {Array(style, <<c>>) : style \in CycleStyles, c \in DatedCandidates}
\* The UTC clock when such a reply comes: 2026-06-15 00:00 or 12:00
DatedNows == {30, 31}

\* The replies a search service may give
RepliesOf(name) ==
    IF name = "any" THEN CycleReplies
    ELSE IF name = "few" THEN ThreadReplies
    ELSE IF name = "dated" THEN DatedReplies
    ELSE {}

\* The text of every reply of the model, and what parse_hackathon_data
\* (raw_data, limit=15) makes of it, worked out once
ReplyText ==
    [r \in CycleReplies \cup ThreadReplies \cup DatedReplies |-> TextOf(r)]
ParsedReply ==
    [raw_data \in {ReplyText[r] : r \in CycleReplies \cup ThreadReplies},
     current_date \in StartNows |->
        ParseHackathonData(raw_data, CycleLimit, current_date)]
ParsedDated ==
    [raw_data \in {ReplyText[r] : r \in DatedReplies},
     current_date \in DatedNows |->
        ParseHackathonData(raw_data, CycleLimit, current_date)]

\* The stores a cycle finds: empty, one live document, an expired one too
LiveDoc ==
    [title |-> "Ab", website_url |-> "u", end_date |-> FutureDate,
     scraped_at |-> 28, source |-> Source]
ExpiredDoc ==
    [title |-> "Zz", website_url |-> "w", end_date |-> "2026-06-01",
     scraped_at |-> 0, source |-> Source]
CycleStores == {WithIds(<<>>), WithIds(<<LiveDoc>>), WithIds(<<ExpiredDoc, LiveDoc>>)}

\* There is no other thread
NoThread == [pc |-> "none"]
\* No maintenance is under way
NoScan == [pc |-> "none"]

\* No parse and no cycle is under way
Idle ==
    /\ reply = NoReply /\ raw = "" /\ limit = 0 /\ parsed = <<>>
    /\ pc = "idle" /\ attempt = 0 /\ hackathons = <<>> /\ idx = 0
    /\ new_hackathons = <<>> /\ inserted = <<>>
    /\ caught = FALSE /\ raised = FALSE
    /\ wait = 0 /\ response = <<>> /\ request = <<>>
    /\ scan = NoScan
    /\ thread = "scheduler" /\ parked = NoThread /\ ended = <<>>
NoHandlerYet == lastOp = "none" /\ prior = "none" /\ pre = <<>> /\ ret = 0

IdleUnchanged ==
    UNCHANGED <<reply, raw, limit, parsed, pc, attempt, hackathons, idx,
                new_hackathons, inserted, caught, raised, wait, service,
                thread, parked, ended, response,
                request, scan>>

(***************************************************************************)
(* Maintenance handlers, each run with no other writer in between          *)
(***************************************************************************)
DoRemoveExpired ==
    /\ pc = "idle"
    /\ LET r == RemoveExpired(store, LocalNow)
       IN /\ store' = r.store
          /\ ret' = r.count
    /\ pre' = store
    /\ lastOp' = "remove_expired_hackathons"
    /\ prior' = lastOp
    /\ UNCHANGED <<nextId, now, tz>>
    /\ IdleUnchanged

DoRemoveDuplicates ==
    /\ pc = "idle"
    /\ LET r == RemoveDuplicates(store)
       IN /\ store' = r.store
          /\ ret' = r.count
    /\ pre' = store
    /\ lastOp' = "remove_duplicates"
    /\ prior' = lastOp
    /\ UNCHANGED <<nextId, now, tz>>
    /\ IdleUnchanged

\* remove_duplicates() when a store call raises: the passes before it have
\* deleted, and the except clause returns 0
DoRemoveDuplicatesFails ==
    /\ pc = "idle"
    /\ store' \in {store, TitlePass(store), UrlPass(TitlePass(store))}
    /\ ret' = 0
    /\ pre' = store
    /\ lastOp' = "remove_duplicates"
    /\ prior' = lastOp
    /\ UNCHANGED <<nextId, now, tz>>
    /\ IdleUnchanged

\* Method 2 of remove_duplicates on a store as it may find it
DoUrlPass ==
    /\ pc = "idle"
    /\ lastOp = "none"
    /\ store' = UrlPass(store)
    /\ ret' = Len(store) - Len(store')
    /\ pre' = store
    /\ lastOp' = "url_pass"
    /\ prior' = lastOp
    /\ UNCHANGED <<nextId, now, tz>>
    /\ IdleUnchanged

(***************************************************************************)
(* Maintenance on one thread while the COMMIT of a cycle runs on another:  *)
(* one store call per step.  insert_many writes its documents one by one,  *)
(* and a find() between two of them returns those written so far.          *)
(***************************************************************************)
\* What the three passes of remove_duplicates list from their snapshot
Listed(pass, all_hackathons) ==
    IF pass = "title" THEN Range(TitleDuplicates(all_hackathons))
    ELSE IF pass = "url" THEN Range(UrlDuplicates(all_hackathons))
    ELSE Range(SimilarDuplicates(all_hackathons))
AfterPass == [title |-> "url", url |-> "similar", similar |-> "over"]

\* delete_many as it would be if it also took every later document
DeleteListed_AndLater(s, listed) ==
    DeleteMany(s, LAMBDA h : \E id \in listed : h._id >= id)
\* delete_many({"_id": {"$in": listed}})
DeleteListed(s, listed) == DeleteMany(s, LAMBDA h : h._id \in listed)

RaceUnchanged ==
    UNCHANGED <<now, tz, lastOp, prior, pre, ret, reply, raw, limit, parsed,
                attempt, hackathons, idx, new_hackathons, caught, raised,
                wait, service, thread, parked, ended, response, request>>

\* insert_many(new_hackathons): the next document is written, and inserted
\* holds it with the _id the store gave it
CommitOne ==
    /\ pc = "dedup"
    /\ idx = Len(hackathons)
    /\ Len(inserted) < Len(new_hackathons)
    /\ store' = InsertMany(store, <<new_hackathons[Len(inserted) + 1]>>, nextId)
    /\ nextId' = nextId + 1
    /\ inserted' = Append(inserted, store'[Len(store')])
    /\ pc' = IF Len(inserted') = Len(new_hackathons) THEN "done" ELSE pc
    /\ UNCHANGED scan
    /\ RaceUnchanged

\* Another thread calls remove_expired_hackathons() and remove_duplicates()
MaintainBegin ==
    /\ scan = NoScan
    /\ scan' = [pc |-> "expire", pass |-> "", all_hackathons |-> <<>>,
                listed |-> {}]
    /\ UNCHANGED <<store, nextId, inserted, pc>>
    /\ RaceUnchanged

\* remove_expired_hackathons: the first delete_many
ExpireDated ==
    /\ scan.pc = "expire"
    /\ store' = DeleteMany(store, LAMBDA h :
                     ExpiredFilter(h, Strftime(DateOf(LocalNow))))
    /\ scan' = [scan EXCEPT !.pc = "old_tbd"]
    /\ UNCHANGED <<nextId, inserted, pc>>
    /\ RaceUnchanged

\* remove_expired_hackathons: the second delete_many
ExpireOldTbd ==
    /\ scan.pc = "old_tbd"
    /\ store' = DeleteMany(store, LAMBDA h :
                     OldTbdFilter(h, LocalNow - SixtyDays))
    /\ scan' = [scan EXCEPT !.pc = "find", !.pass = "title"]
    /\ UNCHANGED <<nextId, inserted, pc>>
    /\ RaceUnchanged

\* The pass as it would be if the three passes worked on the snapshot
\* that the first of them read
PassFind_FirstSnapshot ==
    /\ scan.pc = "find"
    /\ \E all_hackathons \in {IF scan.pass = "title" THEN store
                                ELSE scan.all_hackathons} :
          scan' = [scan EXCEPT !.pc = "delete",
                               !.all_hackathons = all_hackathons,
                               !.listed = Listed(scan.pass, all_hackathons)]
    /\ UNCHANGED <<store, nextId, inserted, pc>>
    /\ RaceUnchanged

\* remove_duplicates: a pass reads its snapshot with find() and lists the
\* _ids of the duplicates in it
PassFind ==
    /\ scan.pc = "find"
    /\ scan' = [scan EXCEPT !.pc = "delete", !.all_hackathons = store,
                            !.listed = Listed(scan.pass, store)]
    /\ UNCHANGED <<store, nextId, inserted, pc>>
    /\ RaceUnchanged

\* remove_duplicates: the pass deletes what it listed
PassDelete ==
    /\ scan.pc = "delete"
    /\ store' = DeleteListed(store, scan.listed)
    /\ scan' = [scan EXCEPT !.pc = IF scan.pass = "similar" THEN "over" ELSE "find",
                            !.pass = AfterPass[scan.pass]]
    /\ UNCHANGED <<nextId, inserted, pc>>
    /\ RaceUnchanged

\* The orders in which find(), called without a sort, may return the
\* documents of the store
Orders(s) ==
    {[i \in 1..Len(s) |-> s[p[i]]] :
        p \in {q \in [1..Len(s) -> 1..Len(s)] :
                  \A i, j \in 1..Len(s) : q[i] = q[j] => i = j}}

\* remove_duplicates: a pass reads its snapshot with find(), in an order
\* the store does not promise, and lists the _ids of the duplicates in it
PassFindAnyOrder ==
    /\ scan.pc = "find"
    /\ \E all_hackathons \in Orders(store) :
          scan' = [scan EXCEPT !.pc = "delete",
                               !.all_hackathons = all_hackathons,
                               !.listed = Listed(scan.pass, all_hackathons)]
    /\ UNCHANGED <<store, nextId, inserted, pc>>
    /\ RaceUnchanged

\* The other thread's remove_duplicates() gets the processor
SwitchRun ==
    /\ parked # NoThread
    /\ parked' = [who |-> thread, scan |-> scan]
    /\ scan' = parked.scan
    /\ thread' = parked.who
    /\ UNCHANGED <<store, nextId, now, tz, lastOp, prior, pre, ret, reply, raw,
                   limit, parsed, pc, attempt, hackathons, idx, new_hackathons,
                   inserted, caught, raised, wait, service, ended, response,
                   request>>

\* Method 1 of remove_duplicates on a store as it may find it
DoTitlePass ==
    /\ pc = "idle"
    /\ lastOp = "none"
    /\ store' = TitlePass(store)
    /\ ret' = Len(store) - Len(store')
    /\ pre' = store
    /\ lastOp' = "title_pass"
    /\ prior' = lastOp
    /\ UNCHANGED <<nextId, now, tz>>
    /\ IdleUnchanged

(***************************************************************************)
(* Method 3 of remove_duplicates, one pair of the loops per step           *)
(***************************************************************************)
ScanUnchanged ==
    UNCHANGED <<reply, raw, limit, parsed, pc, attempt, hackathons, idx,
                new_hackathons, inserted, caught, raised, wait, service,
                thread, parked, ended, response, request>>

\* all_hackathons = list(find()); similar_duplicates = []
BeginSimilar ==
    /\ pc = "idle"
    /\ lastOp = "none"
    /\ scan = NoScan
    /\ scan' = [pc |-> "loop", all_hackathons |-> store, i |-> 1, j |-> 2,
                similar_duplicates |-> <<>>, h1 |-> 0, h2 |-> 0, appended |-> 0]
    /\ pre' = store
    /\ UNCHANGED <<store, nextId, now, tz, lastOp, prior, ret>>
    /\ ScanUnchanged

\* The body of the loops for the pair (h1, h2) = (all[i], all[j])
SimilarStep ==
    /\ scan.pc = "loop"
    /\ scan.j <= Len(scan.all_hackathons)
    /\ \E id \in {SimilarChoice(scan.all_hackathons[scan.i],
                                 scan.all_hackathons[scan.j],
                                 scan.similar_duplicates)} :
          scan' = [scan EXCEPT
                      !.similar_duplicates = Scheduled(@, id),
                      !.h1 = scan.i, !.h2 = scan.j, !.appended = id,
                      !.i = IF scan.j < Len(scan.all_hackathons) THEN @ ELSE @ + 1,
                      !.j = IF scan.j < Len(scan.all_hackathons) THEN @ + 1
                            ELSE scan.i + 2]
    /\ UNCHANGED <<store, nextId, now, tz, lastOp, prior, pre, ret>>
    /\ ScanUnchanged

\* After the loops: delete_many the similar_duplicates, if there are any
EndSimilar ==
    /\ scan.pc = "loop"
    /\ scan.j > Len(scan.all_hackathons)
    /\ store' = DeleteMany(store, LAMBDA h :
                     h._id \in Range(scan.similar_duplicates))
    /\ scan' = [scan EXCEPT !.pc = "done"]
    /\ ret' = Len(store) - Len(store')
    /\ lastOp' = "similar_pass"
    /\ prior' = lastOp
    /\ UNCHANGED <<nextId, now, tz, pre>>
    /\ ScanUnchanged

(***************************************************************************)
(* The read routes                                                         *)
(***************************************************************************)
\* sort_key as it would be without the priority
IndexSortKey_DateOnly(h) ==
    LET end_date == Get(h, "end_date", "9999-12-31")
    IN <<0, IF end_date # "TBD" THEN end_date ELSE "9999-12-31">>
\* index: sort_key(h)
IndexSortKey(h) ==
    LET status == Lower(Get(h, "status", "upcoming"))
        end_date == Get(h, "end_date", "9999-12-31")
    IN <<IF status = "open" THEN 0 ELSE 1,
         IF end_date # "TBD" THEN end_date ELSE "9999-12-31">>
KeyLess(a, b) == a[1] < b[1] \/ (a[1] = b[1] /\ StrLess(a[2], b[2]))

\* list.sort(key=sort_key): ascending, equal keys in their old order
RECURSIVE IndexInsert(_, _)
IndexInsert(sorted, x) ==
    IF sorted = <<>> THEN <<x>>
    ELSE IF KeyLess(IndexSortKey(x), IndexSortKey(Head(sorted)))
         THEN <<x>> \o sorted
    ELSE <<Head(sorted)>> \o IndexInsert(Tail(sorted), x)
RECURSIVE IndexSort(_, _, _)
IndexSort(list, i, sorted) ==
    IF i > Len(list) THEN sorted
    ELSE IndexSort(list, i + 1, IndexInsert(sorted, list[i]))

\* index: the days_until_deadline of a document
DaysUntilDeadline(h, current_date) ==
    IF Get(h, "end_date", "") # "" /\ h.end_date # "TBD"
    THEN IF Strptime(h.end_date) = NoDate THEN 999
         ELSE Toordinal(Strptime(h.end_date))
                  - Toordinal(Strptime(current_date))
    ELSE 999

\* index: sort_key raises where the status is no string (it has no
\* lower()), and the except clause of the route renders an empty list
IndexRaises(list) ==
    \E i \in 1..Len(list) : Has(list[i], "status") /\ ~IsStr(list[i].status)

\* index: what the template is rendered with
IndexView(list, current_date) ==
    IF IndexRaises(list) THEN <<>>
    ELSE LET sorted == IndexSort(list, 1, <<>>)
         IN [i \in 1..Len(sorted) |->
                Put(Put(sorted[i], "_id", DigitStr(sorted[i]._id)),
                    "days_until_deadline",
                    DaysUntilDeadline(sorted[i], current_date))]

\* GET /: remove_expired_hackathons(), remove_duplicates(), find(), render
DoIndex ==
    /\ pc = "idle"
    /\ \E r \in {RemoveDuplicates(RemoveExpired(store, LocalNow).store)} :
          /\ store' = r.store
          /\ response' = IndexView(r.store, Strftime(DateOf(LocalNow)))
    /\ UNCHANGED <<request, scan>>
    /\ ret' = Len(store) - Len(store')
    /\ pre' = store
    /\ lastOp' = "index"
    /\ prior' = lastOp
    /\ UNCHANGED <<nextId, now, tz, reply, raw, limit, parsed, pc, attempt,
                   hackathons, idx, new_hackathons, inserted, caught, raised,
                   wait, service, thread, parked, ended>>

\* find().sort("end_date", -1): descending; the server is free in the
\* order of documents with equal end_date
SortedDescending(list) ==
    {[i \in 1..Len(list) |-> list[p[i]]] :
        p \in {q \in Permutations(1..Len(list)) :
                  \A i, j \in 1..Len(list) :
                      i < j => ~StrLess(Get(list[q[i]], "end_date", ""),
                                        Get(list[q[j]], "end_date", ""))}}

\* api_hackathons: the list handed to jsonify
ApiView(list) ==
    [i \in 1..Len(list) |->
        LET h == Put(list[i], "_id", DigitStr(list[i]._id))
        IN IF Has(h, "scraped_at")
           THEN Put(h, "scraped_at", Isoformat(h.scraped_at)) ELSE h]

\* GET /api/hackathons: remove_expired_hackathons(), find().sort(), jsonify
DoApiHackathons ==
    /\ pc = "idle"
    /\ \E r \in {RemoveExpired(store, LocalNow)} :
          /\ store' = r.store
          /\ \E sorted \in SortedDescending(r.store) :
                response' = ApiView(sorted)
    /\ UNCHANGED <<request, scan>>
    /\ ret' = Len(store) - Len(store')
    /\ pre' = store
    /\ lastOp' = "api_hackathons"
    /\ prior' = lastOp
    /\ UNCHANGED <<nextId, now, tz, reply, raw, limit, parsed, pc, attempt,
                   hackathons, idx, new_hackathons, inserted, caught, raised,
                   wait, service, thread, parked, ended>>

\* The extraction steps of parse_hackathon_data, applied to a text and
\* then once more to the text they gave
DoExtract ==
    /\ pc = "idle"
    /\ \/ lastOp = "none"
       \/ lastOp = "extract" /\ prior = "none" /\ ret.found
    /\ \E raw_data \in {IF lastOp = "none" THEN raw ELSE ret.text} :
          /\ raw' = raw_data
          /\ ret' = Extract(raw_data)
    /\ lastOp' = "extract"
    /\ prior' = lastOp
    /\ UNCHANGED <<store, nextId, now, tz, pre, reply, limit, parsed, pc,
                   attempt, hackathons, idx, new_hackathons, inserted, caught,
                   raised, wait, service, thread, parked, ended, response,
                   request, scan>>

(***************************************************************************)
(* The update route                                                        *)
(***************************************************************************)
\* The form fields update_hackathon reads with request.form.get
FormFields ==
    {"title", "description", "organizer", "registration_deadline",
     "event_date", "prize_pool", "website_url", "platform", "status",
     "eligibility"}
\* None, as the store keeps it
None == "#null"

\* s.split(',')
RECURSIVE SplitComma(_)
SplitComma(s) ==
    LET at == Find(s, ",")
    IN IF at = 0 THEN <<s>>
       ELSE <<SubSeq(s, 1, at - 1)>> \o SplitComma(SubSeq(s, at + 1, Len(s)))
\* [tag.strip() for tag in tags.split(',')]
TagList(tags) ==
    LET split == SplitComma(tags)
    IN [i \in 1..Len(split) |-> Strip(split[i])]

\* update_data, from the form and datetime.utcnow()
UpdateData(form, utcnow) ==
    LET tags == Get(form, "tags", "")
    IN [f \in FormFields |-> Get(form, f, None)]
       @@ [updated_at |-> utcnow]
       @@ (IF tags # "" THEN [tags |-> TagList(tags)] ELSE EmptyDict)

\* ObjectId(hackathon_id): the _id it names, 0 where it raises InvalidId
ObjectId(hackathon_id) ==
    IF Len(hackathon_id) = 1 /\ IsDigit(hackathon_id) /\ hackathon_id # "0"
    THEN CHOOSE i \in 1..9 : DigitStr(i) = hackathon_id
    ELSE 0

\* update_one as it would be with upsert=True
UpdateOne_Upsert(s, id, update_data) ==
    IF \E k \in 1..Len(s) : s[k]._id = id
    THEN [k \in 1..Len(s) |->
             IF s[k]._id = id THEN update_data @@ s[k] ELSE s[k]]
    ELSE Append(s, update_data @@ [_id |-> id])
\* update_one({'_id': id}, {'$set': update_data})
UpdateOne(s, id, update_data) ==
    [k \in 1..Len(s) |-> IF s[k]._id = id THEN update_data @@ s[k] ELSE s[k]]

\* POST /update/<hackathon_id>, at most twice in a row
DoUpdateHackathon ==
    /\ pc = "idle"
    /\ lastOp = "none" \/ prior = "none"
    /\ \E hackathon_id \in RequestIds, form \in Forms :
          /\ request' = [hackathon_id |-> hackathon_id, form |-> form]
          /\ IF ObjectId(hackathon_id) = 0
             THEN /\ store' = store
                  /\ response' = [redirect |-> "edit_hackathon",
                                   hackathon_id |-> hackathon_id]
             ELSE /\ store' = UpdateOne(store, ObjectId(hackathon_id),
                                        UpdateData(form, now))
                  /\ response' = [redirect |-> "view_hackathon",
                                   hackathon_id |-> hackathon_id]
    /\ ret' = 0
    /\ pre' = store
    /\ lastOp' = "update_hackathon"
    /\ prior' = lastOp
    /\ UNCHANGED <<nextId, now, tz, reply, raw, limit, parsed, pc, attempt,
                   hackathons, idx, new_hackathons, inserted, caught, raised,
                   wait, service, thread, parked, ended, scan>>

\* Half a day passes
Tick ==
    /\ pc = "idle"
    /\ \E start \in StartNows : now < start + MaxTicks
    /\ now' = now + 1
    /\ lastOp' = "tick"
    /\ prior' = lastOp
    /\ pre' = store
    /\ ret' = 0
    /\ UNCHANGED <<store, nextId, tz>>
    /\ IdleUnchanged

\* parse_hackathon_data(raw, limit) called on a reply
DoParse ==
    /\ pc = "idle"
    /\ lastOp = "none"
    /\ \E r \in {ParseHackathonData(raw, limit, now)} :
          /\ parsed' = r.ret
          /\ raised' = r.exc
    /\ lastOp' = "parse_hackathon_data"
    /\ prior' = lastOp
    /\ UNCHANGED <<store, nextId, now, tz, pre, ret, reply, raw, limit, pc,
                   attempt, hackathons, idx, new_hackathons, inserted, caught,
                   wait, service, thread, parked, ended, response,
                   request, scan>>

(***************************************************************************)
(* run_scraping, one store call or one collaborator call per step          *)
(***************************************************************************)
\* The except clause of run_scraping as it would be if it raised again,
\* with no except clause around the call of run_scraping
ExceptClause_Reraise == [caught |-> TRUE, raised |-> TRUE]
\* The except clause of run_scraping logs the exception; nothing is left
\* for the one of automatic_scrape
ExceptClause == [caught |-> TRUE, raised |-> FALSE]

CycleUnchanged ==
    UNCHANGED <<now, tz, limit, parsed, service, thread, parked, ended,
                response,
                request, scan>>

\* A cycle begins: remove_expired_hackathons()
CycleExpire ==
    /\ pc = "idle"
    /\ LET r == RemoveExpired(store, LocalNow)
       IN /\ store' = r.store
          /\ ret' = r.count
    /\ pre' = store
    /\ pc' = "collapse"
    /\ lastOp' = "cycle_expire"
    /\ prior' = lastOp
    /\ UNCHANGED <<nextId, reply, raw, attempt, hackathons, idx,
                   new_hackathons, inserted, caught, raised>>
    /\ UNCHANGED wait
    /\ CycleUnchanged

\* remove_duplicates()
CycleCollapse ==
    /\ pc = "collapse"
    /\ LET r == RemoveDuplicates(store)
       IN /\ store' = r.store
          /\ ret' = r.count
    /\ pc' = "fetch"
    /\ lastOp' = "cycle_collapse"
    /\ prior' = lastOp
    /\ UNCHANGED <<nextId, pre, reply, raw, attempt, hackathons, idx,
                   new_hackathons, inserted, caught, raised>>
    /\ UNCHANGED wait
    /\ CycleUnchanged

\* wait_time, attempt being the index of the attempt that failed
WaitTime_Flat(failed) == 10
WaitTime(failed) == (failed + 1) * 10

\* remove_expired_hackathons() as it would be without its except clause:
\* the except clause of run_scraping ends the cycle
CycleExpireFails_Propagates ==
    /\ pc = "idle"
    /\ \E done \in BOOLEAN :
          store' = IF done
                   THEN DeleteMany(store, LAMBDA h :
                            ExpiredFilter(h, Strftime(DateOf(LocalNow))))
                   ELSE store
    /\ ret' = 0
    /\ pre' = store
    /\ pc' = "done"
    /\ caught' = ExceptClause.caught
    /\ raised' = ExceptClause.raised
    /\ lastOp' = "cycle_expire_fails"
    /\ prior' = lastOp
    /\ UNCHANGED <<nextId, reply, raw, attempt, hackathons, idx,
                   new_hackathons, inserted>>
    /\ UNCHANGED wait
    /\ CycleUnchanged

\* remove_expired_hackathons() when a store call raises: its except
\* clause returns 0, after no delete_many or after the first
CycleExpireFails ==
    /\ pc = "idle"
    /\ \E done \in BOOLEAN :
          store' = IF done
                   THEN DeleteMany(store, LAMBDA h :
                            ExpiredFilter(h, Strftime(DateOf(LocalNow))))
                   ELSE store
    /\ ret' = 0
    /\ pre' = store
    /\ pc' = "collapse"
    /\ lastOp' = "cycle_expire_fails"
    /\ prior' = lastOp
    /\ UNCHANGED <<nextId, reply, raw, attempt, hackathons, idx,
                   new_hackathons, inserted, caught, raised>>
    /\ UNCHANGED wait
    /\ CycleUnchanged

\* remove_duplicates() when a store call raises: its except clause
\* returns 0, after no pass, after the first or after the second
CycleCollapseFails ==
    /\ pc = "collapse"
    /\ store' \in {store, TitlePass(store), UrlPass(TitlePass(store))}
    /\ ret' = 0
    /\ pc' = "fetch"
    /\ lastOp' = "cycle_collapse_fails"
    /\ prior' = lastOp
    /\ UNCHANGED <<nextId, pre, reply, raw, attempt, hackathons, idx,
                   new_hackathons, inserted, caught, raised>>
    /\ UNCHANGED wait
    /\ CycleUnchanged

\* The attempt as it would be if the loop began again after the last one
FetchFails_StartsOver ==
    /\ pc = "fetch"
    /\ attempt < MaxAttempts
    /\ attempt' = (attempt + 1) % MaxAttempts
    /\ raw' = raw /\ pc' = "fetch" /\ wait' = WaitTime(attempt)
    /\ lastOp' = "fetch_fails"
    /\ prior' = lastOp
    /\ UNCHANGED <<store, nextId, pre, ret, reply, hackathons, idx,
                   new_hackathons, inserted, caught, raised>>
    /\ CycleUnchanged

\* search_hackathons: an attempt fails; after the last one the text is "[]"
FetchFails ==
    /\ pc = "fetch"
    /\ attempt < MaxAttempts
    /\ attempt' = attempt + 1
    /\ IF attempt < MaxAttempts - 1
       THEN raw' = raw /\ pc' = "fetch" /\ wait' = WaitTime(attempt)
       ELSE raw' = "[]" /\ pc' = "fetched" /\ wait' = 0
    /\ lastOp' = "fetch_fails"
    /\ prior' = lastOp
    /\ UNCHANGED <<store, nextId, pre, ret, reply, hackathons, idx,
                   new_hackathons, inserted, caught, raised>>
    /\ CycleUnchanged

\* search_hackathons: an attempt returns the text of a reply
FetchReplies ==
    /\ pc = "fetch"
    /\ attempt < MaxAttempts
    /\ \E r \in RepliesOf(service) :
          /\ reply' = r
          /\ raw' = ReplyText[r]
    /\ attempt' = attempt
    /\ wait' = 0
    /\ pc' = "fetched"
    /\ lastOp' = "fetch_replies"
    /\ prior' = lastOp
    /\ UNCHANGED <<store, nextId, pre, ret, hackathons, idx,
                   new_hackathons, inserted, caught, raised>>
    /\ CycleUnchanged

\* The empty-reply check and parse_hackathon_data(raw_data, limit=15)
CycleParse ==
    /\ pc = "fetched"
    /\ IF raw = "" \/ raw = "[]"
       THEN /\ hackathons' = <<>>
            /\ pc' = "done"
            /\ UNCHANGED <<caught, raised>>
       ELSE \E r \in {IF service = "dated" THEN ParsedDated[raw, now]
                                           ELSE ParsedReply[raw, now]} :
               /\ hackathons' = r.ret
               /\ pc' = IF r.exc \/ r.ret = <<>> THEN "done" ELSE "dedup"
               /\ caught' = (r.exc /\ ExceptClause.caught)
               /\ raised' = (r.exc /\ ExceptClause.raised)
    /\ idx' = 0
    /\ new_hackathons' = <<>>
    /\ attempt' = 0
    /\ lastOp' = "cycle_parse"
    /\ prior' = lastOp
    /\ UNCHANGED <<store, nextId, pre, ret, reply, raw, inserted>>
    /\ UNCHANGED wait
    /\ CycleUnchanged

\* remove_expired_hackathons() is called next after the COMMIT, by the
\* list view or by the cycle that follows
ExpireAfterCommit ==
    /\ pc = "done"
    /\ lastOp = "cycle_insert"
    /\ LET r == RemoveExpired(store, LocalNow)
       IN /\ store' = r.store
          /\ ret' = r.count
    /\ pre' = store
    /\ lastOp' = "remove_expired_hackathons"
    /\ prior' = lastOp
    /\ UNCHANGED <<nextId, pc, reply, raw, attempt, hackathons, idx,
                   new_hackathons, inserted, caught, raised>>
    /\ UNCHANGED wait
    /\ CycleUnchanged

\* The round as it would be if a candidate that matches were written over
\* the document it matches
DedupStep_Merges ==
    /\ pc = "dedup"
    /\ idx < Len(hackathons)
    /\ LET hackathon == hackathons[idx + 1]
           found == FindOne(store, hackathon)
       IN IF Falsy(hackathon, "title") \/ Falsy(hackathon, "website_url")
          THEN /\ new_hackathons' = new_hackathons /\ store' = store
               /\ ret' = 0 /\ pc' = pc /\ UNCHANGED <<caught, raised>>
          ELSE IF found.raises
          THEN /\ new_hackathons' = new_hackathons /\ store' = store
               /\ ret' = 0 /\ pc' = "done"
               /\ caught' = ExceptClause.caught
               /\ raised' = ExceptClause.raised
          ELSE IF found.existing
          THEN /\ new_hackathons' = new_hackathons
               /\ store' = [i \in DOMAIN store |->
                              IF FindOne(<<store[i]>>, hackathon).existing
                              THEN hackathon @@ store[i] ELSE store[i]]
               /\ ret' = 0 /\ pc' = pc /\ UNCHANGED <<caught, raised>>
          ELSE /\ new_hackathons' = Append(new_hackathons, hackathon)
               /\ store' = store
               /\ ret' = 1 /\ pc' = pc /\ UNCHANGED <<caught, raised>>
    /\ idx' = idx + 1
    /\ lastOp' = "dedup_step"
    /\ prior' = lastOp
    /\ UNCHANGED <<nextId, pre, reply, raw, attempt, hackathons, inserted>>
    /\ UNCHANGED wait
    /\ CycleUnchanged

\* One round of the DEDUP loop: ret tells whether the candidate was taken
DedupStep ==
    /\ pc = "dedup"
    /\ idx < Len(hackathons)
    /\ LET hackathon == hackathons[idx + 1]
           found == FindOne(store, hackathon)
       IN IF Falsy(hackathon, "title") \/ Falsy(hackathon, "website_url")
          THEN /\ new_hackathons' = new_hackathons
               /\ ret' = 0 /\ pc' = pc /\ UNCHANGED <<caught, raised>>
          ELSE IF found.raises
          THEN /\ new_hackathons' = new_hackathons
               /\ ret' = 0 /\ pc' = "done"
               /\ caught' = ExceptClause.caught
               /\ raised' = ExceptClause.raised
          ELSE IF found.existing
          THEN /\ new_hackathons' = new_hackathons
               /\ ret' = 0 /\ pc' = pc /\ UNCHANGED <<caught, raised>>
          ELSE /\ new_hackathons' = Append(new_hackathons, hackathon)
               /\ ret' = 1 /\ pc' = pc /\ UNCHANGED <<caught, raised>>
    /\ idx' = idx + 1
    /\ lastOp' = "dedup_step"
    /\ prior' = lastOp
    /\ UNCHANGED <<store, nextId, pre, reply, raw, attempt, hackathons,
                   inserted>>
    /\ UNCHANGED wait
    /\ CycleUnchanged

\* find_one raises because the store cannot be reached: the except clause
\* of run_scraping ends the cycle
DedupFails ==
    /\ pc = "dedup"
    /\ idx < Len(hackathons)
    /\ ~Falsy(hackathons[idx + 1], "title")
    /\ ~Falsy(hackathons[idx + 1], "website_url")
    /\ caught' = ExceptClause.caught
    /\ raised' = ExceptClause.raised
    /\ pc' = "done"
    /\ ret' = 0
    /\ idx' = idx + 1
    /\ lastOp' = "dedup_fails"
    /\ prior' = lastOp
    /\ UNCHANGED <<store, nextId, pre, reply, raw, attempt, hackathons,
                   new_hackathons, inserted>>
    /\ UNCHANGED wait
    /\ CycleUnchanged

\* insert_many raises: the documents before the one that failed are
\* written (an ordered insert), and the except clause ends the cycle
InsertFails ==
    /\ pc = "dedup"
    /\ idx = Len(hackathons)
    /\ new_hackathons # <<>>
    /\ \E written \in 0..(Len(new_hackathons) - 1) :
          /\ store' = InsertMany(store, SubSeq(new_hackathons, 1, written), nextId)
          /\ nextId' = nextId + written
          /\ ret' = written
    /\ inserted' = new_hackathons
    /\ caught' = ExceptClause.caught
    /\ raised' = ExceptClause.raised
    /\ pc' = "done"
    /\ lastOp' = "insert_fails"
    /\ prior' = lastOp
    /\ UNCHANGED <<pre, reply, raw, attempt, hackathons, idx, new_hackathons>>
    /\ UNCHANGED wait
    /\ CycleUnchanged

\* The cycle as it would be if it inserted what it has found new so far
\* at any round of the loop
CycleInsert_AnyRound ==
    /\ pc = "dedup"
    /\ new_hackathons # <<>> \/ idx = Len(hackathons)
    /\ IF new_hackathons # <<>>
       THEN /\ store' = InsertMany(store, new_hackathons, nextId)
            /\ nextId' = nextId + Len(new_hackathons)
       ELSE UNCHANGED <<store, nextId>>
    /\ inserted' = inserted \o new_hackathons
    /\ new_hackathons' = <<>>
    /\ ret' = Len(new_hackathons)
    /\ pc' = IF idx = Len(hackathons) THEN "done" ELSE pc
    /\ lastOp' = "cycle_insert"
    /\ prior' = lastOp
    /\ UNCHANGED <<pre, reply, raw, attempt, hackathons, idx, caught, raised>>
    /\ UNCHANGED wait
    /\ CycleUnchanged

\* The loop is over: insert_many(new_hackathons) if there are any
CycleInsert ==
    /\ pc = "dedup"
    /\ idx = Len(hackathons)
    /\ IF new_hackathons # <<>>
       THEN /\ store' = InsertMany(store, new_hackathons, nextId)
            /\ nextId' = nextId + Len(new_hackathons)
       ELSE UNCHANGED <<store, nextId>>
    /\ inserted' = new_hackathons
    /\ ret' = Len(new_hackathons)
    /\ pc' = "done"
    /\ lastOp' = "cycle_insert"
    /\ prior' = lastOp
    /\ UNCHANGED <<pre, reply, raw, attempt, hackathons, idx, new_hackathons,
                   caught, raised>>
    /\ UNCHANGED wait
    /\ CycleUnchanged

(***************************************************************************)
(* Threads: the scheduler's, and the one the manual trigger starts         *)
(***************************************************************************)
\* What a cycle keeps to itself
Locals ==
    [who |-> thread, pc |-> pc, attempt |-> attempt, wait |-> wait,
     reply |-> reply, raw |-> raw, hackathons |-> hackathons, idx |-> idx,
     new_hackathons |-> new_hackathons, inserted |-> inserted,
     caught |-> caught]
\* A cycle that has not taken its first step
NewCycle(who) ==
    [who |-> who, pc |-> "idle", attempt |-> 0, wait |-> 0,
     reply |-> NoReply, raw |-> "", hackathons |-> <<>>, idx |-> 0,
     new_hackathons |-> <<>>, inserted |-> <<>>, caught |-> FALSE]
\* The variables of the running cycle become those of c
Resume(c) ==
    /\ thread' = c.who /\ pc' = c.pc /\ attempt' = c.attempt
    /\ wait' = c.wait /\ reply' = c.reply /\ raw' = c.raw
    /\ hackathons' = c.hackathons /\ idx' = c.idx
    /\ new_hackathons' = c.new_hackathons /\ inserted' = c.inserted
    /\ caught' = c.caught

\* The route as it would be if it called automatic_scrape() itself and
\* answered from inside the cycle, after the expiry
ManualScrape_Inline ==
    /\ parked = NoThread
    /\ parked' = [NewCycle("manual") EXCEPT !.pc = "collapse"]
    /\ store' = RemoveExpired(store, LocalNow).store
    /\ response' = [success |-> TRUE]
    /\ UNCHANGED <<request, scan>>
    /\ pre' = store
    /\ ret' = 0
    /\ lastOp' = "manual_scrape"
    /\ prior' = lastOp
    /\ UNCHANGED <<nextId, now, tz, reply, raw, limit, parsed, pc,
                   attempt, hackathons, idx, new_hackathons, inserted, caught,
                   raised, wait, service, thread, ended>>

\* POST /api/scrape-now: a thread is started on automatic_scrape and the
\* acknowledgment is returned
ManualScrape ==
    /\ parked = NoThread
    /\ parked' = NewCycle("manual")
    /\ response' = [success |-> TRUE]
    /\ UNCHANGED <<request, scan>>
    /\ pre' = store
    /\ ret' = 0
    /\ lastOp' = "manual_scrape"
    /\ prior' = lastOp
    /\ UNCHANGED <<store, nextId, now, tz, reply, raw, limit, parsed, pc,
                   attempt, hackathons, idx, new_hackathons, inserted, caught,
                   raised, wait, service, thread, ended>>

\* The other thread gets the processor
Switch ==
    /\ parked # NoThread
    /\ parked' = Locals
    /\ Resume(parked)
    /\ UNCHANGED <<store, nextId, now, tz, lastOp, prior, pre, ret, limit,
                   parsed, raised, service, ended, response,
                   request, scan>>

\* The interval trigger fires again: the scheduler's thread enters
\* automatic_scrape() once more
NextCycle ==
    /\ thread = "scheduler"
    /\ pc = "done"
    /\ Len(ended) < MaxCycles
    /\ ended' = Append(ended, IF caught THEN "except" ELSE "return")
    /\ Resume(NewCycle(thread))
    /\ pre' = store
    /\ ret' = 0
    /\ lastOp' = "next_cycle"
    /\ prior' = lastOp
    /\ UNCHANGED <<store, nextId, now, tz, limit, parsed, raised, service,
                   parked, response,
                   request, scan>>

\* One scraping cycle from start to end
Init ==
    /\ store \in CycleStores
    /\ nextId = Len(store) + 1
    /\ now \in StartNows
    /\ tz = 0
    /\ NoHandlerYet
    /\ service = "any"
    /\ Idle
Next ==
    \/ CycleExpire
    \/ CycleCollapse
    \/ FetchFails
    \/ FetchReplies
    \/ CycleParse
    \/ DedupStep
    \/ CycleInsert
    \/ CycleExpireFails
    \/ CycleCollapseFails
    \/ DedupFails
    \/ InsertFails
Spec == Init /\ [][Next]_vars
\* The same with the search service of few replies, where every call of
\* the cycle returns or raises in the end
InitFair ==
    /\ store \in CycleStores
    /\ nextId = Len(store) + 1
    /\ now \in StartNows
    /\ tz = 0
    /\ NoHandlerYet
    /\ service = "few"
    /\ Idle
SpecFair == InitFair /\ [][Next]_vars /\ WF_vars(Next)

\* Expiry on its own, as the clock advances
InitExpire ==
    /\ store \in ExpiryStores
    /\ nextId = Len(store) + 1
    /\ now \in StartNows
    /\ tz \in TzOffsets
    /\ NoHandlerYet
    /\ service = "none"
    /\ Idle
NextExpire == DoRemoveExpired \/ Tick
SpecExpire == InitExpire /\ [][NextExpire]_vars

\* Duplicate collapse on its own
InitCollapse ==
    /\ store \in DedupStores
    /\ nextId = Len(store) + 1
    /\ now \in StartNows
    /\ tz = 0
    /\ NoHandlerYet
    /\ service = "none"
    /\ Idle
NextCollapse == DoRemoveDuplicates
SpecCollapse == InitCollapse /\ [][NextCollapse]_vars

\* The exact-URL pass on its own
NextUrlPass == DoUrlPass
SpecUrlPass == InitCollapse /\ [][NextUrlPass]_vars

\* Two threads and the scheduler's later cycles
InitThreads ==
    /\ store = <<>>
    /\ nextId = Len(store) + 1
    /\ now \in StartNows
    /\ tz = 0
    /\ NoHandlerYet
    /\ service = "few"
    /\ Idle
NextThreads ==
    \/ CycleExpire
    \/ CycleCollapse
    \/ FetchFails
    \/ FetchReplies
    \/ CycleParse
    \/ DedupStep
    \/ CycleInsert
    \/ CycleExpireFails
    \/ CycleCollapseFails
    \/ DedupFails
    \/ InsertFails
    \/ ManualScrape
    \/ Switch
    \/ NextCycle
SpecThreads == InitThreads /\ [][NextThreads]_vars

\* The read routes, called in any order
InitRead ==
    /\ store \in ReadStores
    /\ nextId = Len(store) + 1
    /\ now \in StartNows
    /\ tz = 0
    /\ NoHandlerYet
    /\ service = "none"
    /\ Idle
NextRead == DoIndex \/ DoApiHackathons
SpecRead == InitRead /\ [][NextRead]_vars

\* The list view on its own
InitList ==
    /\ store \in ListStores
    /\ nextId = Len(store) + 1
    /\ now \in StartNows
    /\ tz = 0
    /\ NoHandlerYet
    /\ service = "none"
    /\ Idle
NextList == DoIndex
SpecList == InitList /\ [][NextList]_vars

\* A cycle on an empty store, answered with one candidate, at either half
\* of the day and in every time zone, and the expiry that follows it
InitDated ==
    /\ store = <<>>
    /\ nextId = 1
    /\ now \in DatedNows
    /\ tz \in TzOffsets
    /\ NoHandlerYet
    /\ service = "dated"
    /\ Idle
NextDated ==
    \/ CycleExpire
    \/ CycleCollapse
    \/ FetchReplies
    \/ CycleParse
    \/ DedupStep
    \/ CycleInsert
    \/ ExpireAfterCommit
SpecDated == InitDated /\ [][NextDated]_vars

\* Expiry and collapse, called in any order on a store
InitMaintain ==
    /\ store \in MaintainStores
    /\ nextId = Len(store) + 1
    /\ now \in StartNows
    /\ tz = 0
    /\ NoHandlerYet
    /\ service = "none"
    /\ Idle
NextMaintain ==
    \/ DoRemoveExpired
    \/ DoRemoveDuplicates
    \/ DoRemoveDuplicatesFails
SpecMaintain == InitMaintain /\ [][NextMaintain]_vars

\* A cycle at its COMMIT, and maintenance that another thread runs
InitRace ==
    /\ store \in CycleStores
    /\ nextId = Len(store) + 1
    /\ now \in StartNows
    /\ tz = 0
    /\ NoHandlerYet
    /\ reply = NoReply /\ raw = "" /\ limit = 0 /\ parsed = <<>>
    /\ pc = "dedup" /\ attempt = 0
    /\ hackathons \in RaceBatches(now) /\ hackathons # <<>>
    /\ \A k \in 1..Len(hackathons) : ~FindOne(store, hackathons[k]).existing
    /\ idx = Len(hackathons)
    /\ new_hackathons = hackathons /\ inserted = <<>>
    /\ caught = FALSE /\ raised = FALSE
    /\ wait = 0 /\ service = "none" /\ response = <<>> /\ request = <<>>
    /\ scan = NoScan
    /\ thread = "scheduler" /\ parked = NoThread /\ ended = <<>>
NextRace ==
    \/ CommitOne
    \/ MaintainBegin
    \/ ExpireDated
    \/ ExpireOldTbd
    \/ PassFind
    \/ PassDelete
SpecRace == InitRace /\ [][NextRace]_vars

\* remove_duplicates() called by the route of the list view while the
\* scheduler's thread is in its own call
RunDocs ==
    {[title |-> "Ab", website_url |-> "u", scraped_at |-> 10],
     [title |-> "ab ", website_url |-> "v", scraped_at |-> 10],
     [title |-> "Cd", website_url |-> "v", scraped_at |-> 10],
     [title |-> "Cd", website_url |-> "u", scraped_at |-> 20]}
RunStores == {WithIds(s) : s \in SeqsUpTo(RunDocs, MaxRunStore)}
FirstFind ==
    [pc |-> "find", pass |-> "title", all_hackathons |-> <<>>, listed |-> {}]
InitRuns ==
    /\ store \in RunStores
    /\ nextId = Len(store) + 1
    /\ now \in StartNows
    /\ tz = 0
    /\ lastOp = "none" /\ prior = "none" /\ pre = store /\ ret = 0
    /\ reply = NoReply /\ raw = "" /\ limit = 0 /\ parsed = <<>>
    /\ pc = "idle" /\ attempt = 0 /\ hackathons = <<>> /\ idx = 0
    /\ new_hackathons = <<>> /\ inserted = <<>>
    /\ caught = FALSE /\ raised = FALSE
    /\ wait = 0 /\ service = "none" /\ response = <<>> /\ request = <<>>
    /\ scan = FirstFind
    /\ thread = "scheduler"
    /\ parked = [who |-> "request", scan |-> FirstFind]
    /\ ended = <<>>
NextRuns ==
    \/ PassFindAnyOrder
    \/ PassDelete
    \/ SwitchRun
SpecRuns == InitRuns /\ [][NextRuns]_vars

\* The exact-title pass on its own
NextTitlePass == DoTitlePass
SpecTitlePass == InitCollapse /\ [][NextTitlePass]_vars

\* The similar-title loop on its own
InitSimilar ==
    /\ store \in LoopStores
    /\ nextId = Len(store) + 1
    /\ now \in StartNows
    /\ tz = 0
    /\ NoHandlerYet
    /\ service = "none"
    /\ Idle
NextSimilar == BeginSimilar \/ SimilarStep \/ EndSimilar
SpecSimilar == InitSimilar /\ [][NextSimilar]_vars

\* The update route on its own
InitUpdate ==
    /\ store \in UpdateStores
    /\ nextId = Len(store) + 1
    /\ now \in StartNows
    /\ tz = 0
    /\ NoHandlerYet
    /\ service = "none"
    /\ Idle
NextUpdate == DoUpdateHackathon
SpecUpdate == InitUpdate /\ [][NextUpdate]_vars

\* The extraction steps on their own
InitExtract ==
    /\ store = <<>>
    /\ nextId = 1
    /\ now \in StartNows
    /\ tz = 0
    /\ NoHandlerYet
    /\ reply = NoReply
    /\ raw \in BareArrays
    /\ limit = 0
    /\ parsed = <<>>
    /\ pc = "idle" /\ attempt = 0 /\ hackathons = <<>> /\ idx = 0
    /\ new_hackathons = <<>> /\ inserted = <<>>
    /\ caught = FALSE /\ raised = FALSE
    /\ wait = 0 /\ service = "none" /\ response = <<>> /\ request = <<>>
    /\ scan = NoScan
    /\ thread = "scheduler" /\ parked = NoThread /\ ended = <<>>
NextExtract == DoExtract
SpecExtract == InitExtract /\ [][NextExtract]_vars

\* The parser on texts without a pair of brackets
InitUnbalanced ==
    /\ store = <<>>
    /\ nextId = 1
    /\ now \in StartNows
    /\ tz = 0
    /\ NoHandlerYet
    /\ reply = NoReply
    /\ raw \in Unbalanced
    /\ limit \in Limits
    /\ parsed = <<>>
    /\ pc = "idle" /\ attempt = 0 /\ hackathons = <<>> /\ idx = 0
    /\ new_hackathons = <<>> /\ inserted = <<>>
    /\ caught = FALSE /\ raised = FALSE
    /\ wait = 0 /\ service = "none" /\ response = <<>> /\ request = <<>>
    /\ scan = NoScan
    /\ thread = "scheduler" /\ parked = NoThread /\ ended = <<>>
NextUnbalanced == DoParse
SpecUnbalanced == InitUnbalanced /\ [][NextUnbalanced]_vars

\* The parser on its own
InitParse ==
    /\ store = <<>>
    /\ nextId = 1
    /\ now \in StartNows
    /\ tz = 0
    /\ NoHandlerYet
    /\ reply \in ParseReplies
    /\ raw = TextOf(reply)
    /\ limit \in Limits
    /\ parsed = <<>>
    /\ pc = "idle" /\ attempt = 0 /\ hackathons = <<>> /\ idx = 0
    /\ new_hackathons = <<>> /\ inserted = <<>>
    /\ caught = FALSE /\ raised = FALSE
    /\ wait = 0 /\ service = "none" /\ response = <<>> /\ request = <<>>
    /\ scan = NoScan
    /\ thread = "scheduler" /\ parked = NoThread /\ ended = <<>>
NextParse == DoParse
SpecParse == InitParse /\ [][NextParse]_vars

(***************************************************************************)
(* Store maintenance: what holds after a handler has returned              *)
(***************************************************************************)
\* The lower-cased trimmed title and the trimmed URL of a document, read
\* off the document itself
TrimmedLowerTitle(h) == Strip(Lower(Get(h, "title", "")))
TrimmedUrl(h) == Strip(Get(h, "website_url", ""))
IsPlaceholder(url) == url \in {"", "N/A", "TBD"}

\* The calendar date a string stands for, worked out once for the end
\* dates of the stored documents
StrptimeOf == [s \in ExpiryEndDates |-> Strptime(s)]
CalendarDate(s) == IF s \in ExpiryEndDates THEN StrptimeOf[s] ELSE Strptime(s)
\* The end_date of h is a calendar date in canonical form
HasIsoDate(h) ==
    /\ Has(h, "end_date")
    /\ h.end_date # "TBD"
    /\ CalendarDate(h.end_date) # NoDate
    /\ Strftime(CalendarDate(h.end_date)) = h.end_date
\* The local calendar date
Today == DateOf(LocalNow)
Yesterday == DateOf(LocalNow - 2)

\* C1: after remove_duplicates() has run to completion, no two documents
\* of the store have the same lower-cased trimmed title, and no two have
\* the same trimmed website_url unless it is a placeholder.
C1_UniqueAfterCollapse ==
    lastOp = "remove_duplicates" =>
        \A i, j \in 1..Len(store) :
            i < j =>
                /\ TrimmedLowerTitle(store[i]) # TrimmedLowerTitle(store[j])
                /\ \/ TrimmedUrl(store[i]) # TrimmedUrl(store[j])
                   \/ IsPlaceholder(TrimmedUrl(store[i]))

\* C1 witness: a collapse that found three documents, two of them with
\* different titles and the same non-placeholder URL, and left two.
C1_Witness ==
    /\ lastOp = "remove_duplicates"
    /\ Len(pre) = 3 /\ Len(store) = 2 /\ ret = 1
    /\ \E i, j \in 1..Len(pre) :
          /\ i < j
          /\ TrimmedUrl(pre[i]) = TrimmedUrl(pre[j])
          /\ ~IsPlaceholder(TrimmedUrl(pre[i]))
          /\ TrimmedLowerTitle(pre[i]) # TrimmedLowerTitle(pre[j])

Considered == 1..(IF limit < Len(reply.elems) THEN limit ELSE Len(reply.elems))
\* The calendar date at the head of e's end_date, NoDate if there is none
CandidateDate(e) ==
    IF IsObject(e) /\ Has(e, "end_date") /\ IsStr(e.end_date) /\ e.end_date # "TBD"
    THEN Strptime(Slice(e.end_date, 1, 10))
    ELSE NoDate
UtcToday == DateOf(now)
\* e has no end date yet: the field is absent or TBD
OpenEnded(e) == IsObject(e) /\ (~Has(e, "end_date") \/ e.end_date = "TBD")
Upcoming(e) == CandidateDate(e) # NoDate /\ DateGeq(CandidateDate(e), UtcToday)
Past(e) == CandidateDate(e) # NoDate /\ ~DateGeq(CandidateDate(e), UtcToday)
\* e is no object, or its end_date is no string, or names no date
Defective(e) ==
    \/ ~IsObject(e)
    \/ /\ Has(e, "end_date")
       /\ \/ ~IsStr(e.end_date)
          \/ e.end_date # "TBD" /\ CandidateDate(e) = NoDate
Healthy(e) == OpenEnded(e) \/ Upcoming(e)
\* The records of the returned list that stem from candidate e
Records(e) == {r \in Range(parsed) : Get(r, "title", "") = e.title}
Parsed == lastOp = "parse_hackathon_data"

\* C8 (as the spec states it): a defect in one candidate skips that record
\* only; every healthy candidate of the same reply is still in the output.
C8_DefectSkipsOnlyThatRecord ==
    Parsed =>
        \A i, j \in Considered :
            (Defective(reply.elems[i]) /\ Healthy(reply.elems[j]))
                => Records(reply.elems[j]) # {}

\* C9 (as the spec states it): more candidates than limit give exactly
\* limit records.
C9_ExactlyLimit ==
    (Parsed /\ Len(reply.elems) > limit) => Len(parsed) = limit

\* C9 (amended): more candidates than limit give at most limit records, all
\* of them from the first limit candidates, and exactly limit when each of
\* the first limit candidates is open-ended or ends today or later.
C9_AtMostLimit ==
    (Parsed /\ Len(reply.elems) > limit) =>
        /\ Len(parsed) <= limit
        /\ \A k \in 1..Len(parsed) :
              \E i \in Considered :
                  /\ IsObject(reply.elems[i])
                  /\ parsed[k] \in Records(reply.elems[i])
        /\ (\A i \in Considered : Healthy(reply.elems[i])) => Len(parsed) = limit

\* C9 witness: a parse of a reply with more candidates than limit that
\* returned limit records.
C9_Witness ==
    /\ Parsed
    /\ Len(reply.elems) > limit
    /\ Len(parsed) = limit

\* e has an end_date that is a string other than TBD and names no date
Unparsable(e) ==
    /\ IsObject(e) /\ Has(e, "end_date")
    /\ IsStr(e.end_date) /\ e.end_date # "TBD"
    /\ CandidateDate(e) = NoDate
\* Every element of the reply is an object whose end_date, if it has one,
\* is a string
NoneRaises == \A i \in 1..Len(reply.elems) :
                 /\ IsObject(reply.elems[i])
                 /\ IsStr(Get(reply.elems[i], "end_date", ""))

\* C35 (as the spec states it): of the candidates the limit admits, one
\* whose end_date is a string that names no date is in the output with
\* its end_date as it came if the string has 10 characters or more, and is
\* not in the output if it has fewer.
C35_LenientFallback ==
    Parsed =>
        \A i \in Considered :
            LET e == reply.elems[i]
            IN Unparsable(e) =>
                  IF Len(e.end_date) >= 10
                  THEN \E r \in Records(e) :
                          Has(r, "end_date") /\ r.end_date = e.end_date
                  ELSE Records(e) = {}

\* C10 (as the spec states it): of the candidates the limit admits, one
\* that ended before today is not in the output, one that ends today or
\* later is in it with end_date in the form YYYY-MM-DD, and one whose
\* end_date is TBD or absent is in it as it came.
C10_ValidatorKeepsAndDrops ==
    Parsed =>
        \A i \in Considered :
            LET e == reply.elems[i]
            IN /\ Past(e) => Records(e) = {}
               /\ Upcoming(e) =>
                     \E r \in Records(e) :
                         /\ Has(r, "end_date")
                         /\ r.end_date = Strftime(CandidateDate(e))
               /\ OpenEnded(e) =>
                     \E r \in Records(e) :
                         /\ Has(r, "end_date") = Has(e, "end_date")
                         /\ Get(r, "end_date", "") = Get(e, "end_date", "")

(***************************************************************************)
(* The scraping cycle: what holds of DEDUP and of the cycle's end          *)
(***************************************************************************)
\* The candidate the DEDUP loop examined last
Examined == hackathons[idx]
HasTitleAndUrl(c) ==
    /\ Has(c, "title") /\ c.title # ""
    /\ Has(c, "website_url") /\ c.website_url # ""
\* The loop put the candidate it examined last in the set to insert
Taken == ret = 1 /\ new_hackathons # <<>> /\ new_hackathons[Len(new_hackathons)] = Examined
\* Some stored document has c's title up to case, or c's very URL
TitleOrUrlStored(c) ==
    \E i \in 1..Len(store) :
        \/ Has(store[i], "title") /\ Lower(store[i].title) = Lower(c.title)
        \/ Has(store[i], "website_url") /\ store[i].website_url = c.website_url
\* Some stored document has c's title up to case and surrounding whitespace
VariantStored(c) ==
    \E i \in 1..Len(store) : TrimmedLowerTitle(store[i]) = TrimmedLowerTitle(c)

\* C4 (as the spec states it): a candidate with a title and a website_url is
\* put in the set to insert if and only if no stored document has its title
\* up to case and none has exactly its website_url.
C4_TakenIffNotStored ==
    (lastOp = "dedup_step" /\ HasTitleAndUrl(Examined)) =>
        (Taken <=> ~TitleOrUrlStored(Examined))

\* C5 (as the spec states it): a candidate whose title differs from a stored
\* title in case and surrounding whitespace only is treated as existing and
\* is not put in the set to insert.
C5_VariantTreatedAsExisting ==
    (lastOp = "dedup_step" /\ HasTitleAndUrl(Examined) /\ VariantStored(Examined))
        => ~Taken

\* The reply is an array of objects that each have a title, a website_url
\* and an end_date after today, with pairwise different titles and URLs
FutureDistinctBatch ==
    /\ reply.style # "text"
    /\ reply.elems # <<>>
    /\ Len(reply.elems) <= CycleLimit
    /\ \A i \in 1..Len(reply.elems) :
          /\ IsObject(reply.elems[i])
          /\ HasTitleAndUrl(reply.elems[i])
          /\ Upcoming(reply.elems[i])
    /\ \A i, j \in 1..Len(reply.elems) :
          i < j => /\ reply.elems[i].title # reply.elems[j].title
                   /\ reply.elems[i].website_url # reply.elems[j].website_url

\* C6 (as the spec states it): a cycle that found the store empty and was
\* answered with such an array ends with one document per element in the
\* store, each with source gemini_search and a scraped_at.
C6_EmptyStoreTakesEveryElement ==
    (pc = "done" /\ pre = <<>> /\ FutureDistinctBatch) =>
        /\ Len(store) = Len(reply.elems)
        /\ \A i \in 1..Len(reply.elems) :
              \E k \in 1..Len(store) :
                  /\ Get(store[k], "title", "") = reply.elems[i].title
                  /\ Get(store[k], "website_url", "") = reply.elems[i].website_url
                  /\ Get(store[k], "source", "") = "gemini_search"
                  /\ Has(store[k], "scraped_at")

\* The cycle was answered with a text that holds no JSON array
UnparseableReply == reply.style = "text" /\ reply.text \in Unparseable

\* C7: when the reply cannot be parsed as a JSON array,
\* parse_hackathon_data returns the empty list, and the cycle ends having
\* inserted nothing, with no exception raised in it or out of it.
C7_UnparseableGivesNothing ==
    UnparseableReply =>
        /\ pc \in {"fetched", "done"}
        /\ hackathons = <<>>
        /\ inserted = <<>>
        /\ nextId = Len(pre) + 1
        /\ \A k \in 1..Len(store) : store[k] \in Range(pre)
        /\ ~caught /\ ~raised

\* C7 witness: a cycle that was answered with an array followed by a
\* reference in brackets, has parsed it and has ended.
C7_Witness ==
    /\ UnparseableReply
    /\ Find(reply.text, "]") # 0 /\ Find(reply.text, ")") # 0
    /\ lastOp = "cycle_parse"
    /\ pc = "done"

(***************************************************************************)
(* Store maintenance run twice                                             *)
(***************************************************************************)
\* C11: a run of remove_duplicates() that follows a completed run of it,
\* with no write in between, deletes nothing and leaves the store as it
\* found it.
C11_CollapseIsFixedPoint ==
    (lastOp = "remove_duplicates" /\ prior = "remove_duplicates") =>
        store = pre /\ ret = 0

\* C11 witness: a second run in a row, on a store from which the first run
\* had deleted a document and in which two are left.
C11_Witness ==
    /\ lastOp = "remove_duplicates" /\ prior = "remove_duplicates"
    /\ Len(store) = 2
    /\ nextId - 1 > Len(store)

\* The documents of pre that have the URL of pre[i], by position
UrlGroup(i) == {j \in 1..Len(pre) : TrimmedUrl(pre[j]) = TrimmedUrl(pre[i])}
Survives(j) == \E k \in 1..Len(store) : store[k] = pre[j]

\* C12: the exact-URL pass leaves, of every group of documents with the
\* same trimmed non-placeholder website_url, exactly one, and none of the
\* group was scraped later than it; it deletes no document whose URL is
\* empty, N/A or TBD.
C12_UrlPassKeepsLatest ==
    lastOp = "url_pass" =>
        \A i \in 1..Len(pre) :
            IF IsPlaceholder(TrimmedUrl(pre[i]))
            THEN Survives(i)
            ELSE /\ Cardinality({j \in UrlGroup(i) : Survives(j)}) = 1
                 /\ \A j, k \in UrlGroup(i) :
                       Survives(j) => ScrapedAt(pre[k]) <= ScrapedAt(pre[j])

\* C12 witness: the pass found three documents, two with one URL scraped
\* at different times and one with a placeholder URL, and deleted the
\* older of the two.
C12_Witness ==
    /\ lastOp = "url_pass"
    /\ Len(pre) = 3 /\ Len(store) = 2
    /\ \E i, j, k \in 1..Len(pre) :
          /\ j \in UrlGroup(i) /\ i # j
          /\ ScrapedAt(pre[i]) < ScrapedAt(pre[j])
          /\ ~Survives(i) /\ Survives(j)
          /\ IsPlaceholder(TrimmedUrl(pre[k])) /\ Survives(k)

\* The response holds the documents of the store, one for one
ResponseIsStore ==
    /\ Len(response) = Len(store)
    /\ \A k \in 1..Len(store) :
          \E i \in 1..Len(response) :
              /\ response[i]._id = DigitStr(store[k]._id)
              /\ response[i].title = store[k].title
Expired(h) ==
    \/ HasIsoDate(h) /\ ~DateGeq(Strptime(h.end_date), Today)
    \/ /\ Has(h, "end_date") /\ h.end_date = "TBD" /\ Has(h, "scraped_at")
       /\ LocalNow - h.scraped_at > TbdMaxAgeDays * 2

\* C13: what a read route (index or api_hackathons) hands back holds no
\* expired document and no two documents that the collapse would merge:
\* no two with the same lower-cased trimmed title or the same trimmed
\* non-placeholder URL.
C13_ReadRoutesCleanFirst ==
    lastOp \in {"index", "api_hackathons"} =>
        /\ ResponseIsStore
        /\ \A i \in 1..Len(store) : ~Expired(store[i])
        /\ \A i, j \in 1..Len(store) :
              i < j =>
                  /\ TrimmedLowerTitle(store[i]) # TrimmedLowerTitle(store[j])
                  /\ \/ TrimmedUrl(store[i]) # TrimmedUrl(store[j])
                     \/ IsPlaceholder(TrimmedUrl(store[i]))

\* The store a cycle's collapse found, when it followed the expiry at once
CollapseFound == RemoveExpired(pre, LocalNow).store
CollapseRan == lastOp = "cycle_collapse" /\ prior = "cycle_expire"
\* The documents of a store that have the title of h
WithTitleOf(s, h) ==
    {k \in 1..Len(s) : TrimmedLowerTitle(s[k]) = TrimmedLowerTitle(h)}
\* No document with another title has the URL of h or a title similar to it
NoRival(s, h) ==
    \A k \in 1..Len(s) :
        k \notin WithTitleOf(s, h) =>
            /\ \/ TrimmedUrl(s[k]) # TrimmedUrl(h)
               \/ IsPlaceholder(TrimmedUrl(h))
            /\ ~Similar(s[k], h)

SearchCalled == lastOp' \in {"fetch_fails", "fetch_replies"}
\* What a call of the search collaborator may follow and what follows it
SearchStep ==
    /\ SearchCalled =>
          /\ pc = "fetch" /\ attempt < 3
          /\ lastOp' = "fetch_replies" =>
                pc' = "fetched" /\ wait' = 0 /\ attempt' = attempt
          /\ lastOp' = "fetch_fails" =>
                /\ attempt' = attempt + 1
                /\ attempt' \in {1, 2} =>
                      pc' = "fetch" /\ wait' = 10 * attempt'
                /\ attempt' = 3 =>
                      pc' = "fetched" /\ wait' = 0 /\ raw' = "[]"
    /\ pc \in {"fetched", "dedup", "done"} => pc' # "fetch"
    /\ ~SearchCalled => wait' = wait
\* The step after the third failure
AfterThreeFailures == lastOp = "cycle_parse" /\ prior = "fetch_fails"

Failed == pc = "done" /\ caught
\* The cycle has returned from the empty-reply check
EndedAtFetch == pc = "done" /\ lastOp = "cycle_parse" /\ raw \in {"", "[]"}

\* C16 as stated: a cycle that fetched a text never ends in failure.
C16_FailureOnlyFromFetch == ~Failed

\* C16 amended: the cycle ends in failure from DEDUP or COMMIT where a
\* store call raises, and from no other step; extraction and validation
\* never end it so, and a cycle that does not fail ends at the empty-reply
\* check, with nothing parsed, or after COMMIT.
C16_FailureOnlyFromStoreCalls ==
    /\ caught => pc = "done"
    /\ Failed => lastOp \in {"dedup_step", "dedup_fails", "insert_fails"}
    /\ (pc = "done" /\ ~caught) => lastOp \in {"cycle_parse", "cycle_insert"}
    /\ (pc = "done" /\ lastOp = "cycle_parse") => hackathons = <<>>

\* C16 witness: the cycle fetched a text, found a candidate new, and
\* insert_many raised.
C16_Witness ==
    /\ Failed
    /\ lastOp = "insert_fails"
    /\ raw \notin {"", "[]"}
    /\ new_hackathons # <<>>

\* C17: no exception leaves automatic_scrape(): whatever raised, the cycle
\* has ended, and when the interval trigger fires again the scheduler's
\* thread can start the next cycle.
C17_FailuresContained ==
    /\ ~raised
    /\ caught => pc = "done"
    /\ (parked # NoThread /\ parked.caught) => parked.pc = "done"
    /\ (thread = "scheduler" /\ pc = "done" /\ Len(ended) < MaxCycles)
           => ENABLED NextCycle

\* C17 witness: the scheduler's first cycle ended in the except clause,
\* no other thread runs, and its next cycle has run every step and
\* inserted a document.
C17_Witness ==
    /\ ended = <<"except">>
    /\ thread = "scheduler" /\ parked = NoThread
    /\ pc = "done" /\ lastOp = "cycle_insert" /\ ~caught
    /\ inserted # <<>> /\ Len(store) = Len(inserted)

\* C18: every document a cycle hands to insert_many, and every document
\* of the store, has a title and a website_url that are not empty; a
\* candidate without one is passed over by the DEDUP loop, which raises
\* nothing for it and goes on with the next candidate.
C18_NoInsertWithoutTitleOrUrl ==
    /\ \A k \in 1..Len(store) : HasTitleAndUrl(store[k])
    /\ \A k \in 1..Len(new_hackathons) : HasTitleAndUrl(new_hackathons[k])
    /\ \A k \in 1..Len(inserted) : HasTitleAndUrl(inserted[k])
    /\ (lastOp = "dedup_step" /\ ~HasTitleAndUrl(Examined)) =>
           /\ ret = 0 /\ ~caught /\ pc = "dedup"
           /\ \A k \in 1..Len(new_hackathons) : new_hackathons[k] # Examined

\* C18 witness: the reply held a candidate with an empty title and then a
\* new one; the cycle has ended and inserted the second alone.
C18_Witness ==
    /\ pc = "done" /\ lastOp = "cycle_insert"
    /\ Len(hackathons) = 2 /\ Len(inserted) = 1
    /\ \E i \in 1..2 : Get(hackathons[i], "title", "x") = ""
    /\ inserted[1].title = "Cd"
    /\ Len(store) = Len(pre) + 1

\* The cycle of the thread the manual trigger started, and the scheduler's
ManualCycle == IF thread = "manual" THEN Locals ELSE parked
ScheduledCycle == IF thread = "scheduler" THEN Locals ELSE parked
Positions == {"idle", "collapse", "fetch", "fetched", "dedup", "done"}
\* A cycle is between its first step and its end
Underway(c) == c.pc \in Positions \ {"idle", "done"}

\* C19: when the manual trigger has answered, the answer is the
\* acknowledgment, the cycle it started on its own thread has taken no
\* step and the store is as the trigger found it; that cycle is at one of
\* the positions of a scheduled cycle, wherever the scheduler's cycle is.
C19_ManualTriggerDoesNotWait ==
    /\ lastOp = "manual_scrape" =>
          /\ response = [success |-> TRUE]
          /\ ManualCycle = NewCycle("manual")
          /\ store = pre
    /\ parked # NoThread =>
          /\ ManualCycle.who = "manual" /\ ManualCycle.pc \in Positions
          /\ ScheduledCycle.who = "scheduler" /\ ScheduledCycle.pc \in Positions

\* C19 witness: the manual cycle is in its DEDUP loop, having found a
\* candidate new, while the scheduler's cycle, started before the trigger,
\* waits between two search attempts.
C19_Witness ==
    /\ parked # NoThread
    /\ ManualCycle.pc = "dedup" /\ ManualCycle.new_hackathons # <<>>
    /\ ScheduledCycle.pc = "fetch" /\ ScheduledCycle.wait = 10
    /\ response = [success |-> TRUE]

\* A text with every run of whitespace made one space
RECURSIVE SingleSpaced(_, _)
SingleSpaced(s, i) ==
    IF i > Len(s) THEN ""
    ELSE (IF ~IsSpace(Char(s, i)) THEN Char(s, i)
          ELSE IF i > 1 /\ IsSpace(Char(s, i - 1)) THEN "" ELSE " ")
         \o SingleSpaced(s, i + 1)
\* The text without the whitespace after its end
Trimmed(s) == Strip(s)

C21_NoBracketPairGivesNothing ==
    (lastOp = "parse_hackathon_data" /\ ~HasBracketPair(raw)) =>
        parsed = <<>> /\ ~raised

\* C21 witness: the parser has returned on a text that holds both brackets,
\* the closing one first, which the slicing step lets through.
C21_Witness ==
    /\ lastOp = "parse_hackathon_data"
    /\ raw = "][{\"title\": \"T\"}"
    /\ Extract(raw).found
    /\ parsed = <<>> /\ ~raised


(***************************************************************************)
(* The list view                                                           *)
(***************************************************************************)
\* What the claim reads off a record of the view
IsOpen(h) == Has(h, "status") /\ h.status = "open"
IsOpenAnyCase(h) ==
    Has(h, "status") /\ IsStr(h.status) /\ Lower(h.status) = "open"
EndDateOrMax(h) ==
    IF ~Has(h, "end_date") \/ h.end_date = "TBD" THEN "9999-12-31"
    ELSE h.end_date
\* C22 as stated: in the list view every record whose status is "open"
\* comes before every record with another status, and the records of each
\* of the two tiers are in ascending end_date order, TBD and a missing
\* end_date counting as the greatest date.
C22_OpenFirstThenEndDate ==
    lastOp = "index" =>
        \A i, j \in 1..Len(response) :
            i < j =>
                /\ ~(IsOpen(response[j]) /\ ~IsOpen(response[i]))
                /\ (IsOpen(response[i]) <=> IsOpen(response[j])) =>
                      ~StrLess(EndDateOrMax(response[j]),
                               EndDateOrMax(response[i]))

\* C22 as the code has it: the first tier holds the records whose status
\* is "open" in any case of letters; a status that is no string makes the
\* view empty, and otherwise the view holds every document of the store.
C22_OpenAnyCaseFirstThenEndDate ==
    lastOp = "index" =>
        /\ IF IndexRaises(store) THEN response = <<>> ELSE ResponseIsStore
        /\ \A i, j \in 1..Len(response) :
              i < j =>
                  /\ ~(IsOpenAnyCase(response[j]) /\ ~IsOpenAnyCase(response[i]))
                  /\ (IsOpenAnyCase(response[i]) <=> IsOpenAnyCase(response[j])) =>
                        ~StrLess(EndDateOrMax(response[j]),
                                 EndDateOrMax(response[i]))

\* C22 witness: the view of a store that held an upcoming record with the
\* earlier date, then an open record with TBD, then an open record with
\* the later date: the open ones come first, the dated one before TBD.
C22_Witness ==
    /\ lastOp = "index"
    /\ Len(pre) = 3
    /\ ~IsOpen(pre[1]) /\ Get(pre[1], "end_date", "") = FutureDate
    /\ IsOpen(pre[2]) /\ Get(pre[2], "end_date", "") = "TBD"
    /\ IsOpen(pre[3]) /\ Get(pre[3], "end_date", "") = "2026-07-01"
    /\ Len(response) = 3
    /\ response[1]._id = "3" /\ response[2]._id = "2" /\ response[3]._id = "1"


(***************************************************************************)
(* The update route                                                        *)
(***************************************************************************)
\* The record the request names, as the route found it
Named(h) == DigitStr(h._id) = request.hackathon_id
\* The fields of the form as the route stores them
Submitted(f) == IF Has(request.form, f) THEN request.form[f] ELSE "#null"
TagsGiven == Has(request.form, "tags") /\ request.form.tags # ""
Touched == FormFields \cup {"updated_at"} \cup (IF TagsGiven THEN {"tags"} ELSE {})

\* C23: the update route leaves the number of records and every record
\* but the named one as they were; of the named record it sets the ten
\* form fields to what the form holds, tags when the form's tags are not
\* empty, and updated_at to the time of the call, and leaves every other
\* field, end_date, scraped_at and source among them, as it was.
C23_UpdateTouchesOneRecord ==
    lastOp = "update_hackathon" =>
        /\ Len(store) = Len(pre)
        /\ \A k \in 1..Len(pre) :
              IF ~Named(pre[k]) THEN store[k] = pre[k]
              ELSE /\ DOMAIN store[k] = DOMAIN pre[k] \cup Touched
                   /\ \A f \in FormFields : store[k][f] = Submitted(f)
                   /\ store[k].updated_at = now
                   /\ TagsGiven => store[k].tags = TagList(request.form.tags)
                   /\ \A f \in DOMAIN pre[k] \ Touched : store[k][f] = pre[k][f]

\* C23 witness: the second of two records was updated with a form that
\* holds a title, tags and an end_date; it has the title and the tags of
\* the form and its own end_date, and the first record is as it was.
C23_Witness ==
    /\ lastOp = "update_hackathon"
    /\ Len(pre) = 2 /\ request.hackathon_id = "2"
    /\ pre[2].end_date = "TBD" /\ request.form.end_date = "2030-01-01"
    /\ store[2].title = "New" /\ store[2].tags = <<"a", "b">>
    /\ store[2].end_date = "TBD" /\ store[2].scraped_at = pre[2].scraped_at
    /\ store[2].source = pre[2].source
    /\ store[1] = pre[1]


(***************************************************************************)
(* The similar-title loop                                                  *)
(***************************************************************************)
\* The pair the loop examined last, and whether its titles are similar
Examined1 == scan.all_hackathons[scan.h1]
Examined2 == scan.all_hackathons[scan.h2]
PairExamined == scan.pc = "loop" /\ scan.h1 # 0
NormalizedTitle(h) == CleanTitle(Strip(Lower(h.title)))
SubstringRelated(a, b) ==
    Contains(NormalizedTitle(a), NormalizedTitle(b))
    \/ Contains(NormalizedTitle(b), NormalizedTitle(a))

\* C24: the record that the similar-title loop schedules for deletion on
\* account of a pair is the one of the pair with the lower score, or the
\* second one when the scores are equal; it is never the one with the
\* higher score.
C24_LowerScoreScheduled ==
    (PairExamined /\ scan.appended # 0) =>
        /\ scan.appended = Examined1._id =>
              Score(Examined1, Examined2) < Score(Examined2, Examined1)
        /\ scan.appended = Examined2._id =>
              Score(Examined2, Examined1) <= Score(Examined1, Examined2)


(***************************************************************************)
(* The exact-title pass                                                    *)
(***************************************************************************)
\* The documents of pre that have the title of pre[i], by position
TitleGroup(i) ==
    {j \in 1..Len(pre) : TrimmedLowerTitle(pre[j]) = TrimmedLowerTitle(pre[i])}

\* C25: the exact-title pass leaves, of every group of documents with the
\* same lower-cased trimmed title, exactly one: of those of the group that
\* were scraped latest, the one the loop met last.  A document that is
\* alone in its group stays.
C25_TitlePassKeepsLatestLastSeen ==
    lastOp = "title_pass" =>
        \E title \in {[k \in 1..Len(pre) |-> TrimmedLowerTitle(pre[k])]} :
            \A j \in 1..Len(pre) :
                Survives(j) <=>
                    \A k \in 1..Len(pre) :
                        title[k] = title[j] =>
                            \/ ScrapedAt(pre[k]) < ScrapedAt(pre[j])
                            \/ ScrapedAt(pre[k]) = ScrapedAt(pre[j]) /\ k <= j

\* C25 witness: the pass found three documents, two of them with one
\* title in different case and scraped at the same time, the third alone
\* with its title; it deleted the first of the two.
C25_Witness ==
    /\ lastOp = "title_pass"
    /\ Len(pre) = 3 /\ Len(store) = 2
    /\ \E i, j, k \in 1..Len(pre) :
          /\ i < j /\ TitleGroup(i) = {i, j} /\ TitleGroup(k) = {k}
          /\ pre[i].title # pre[j].title
          /\ ScrapedAt(pre[i]) = ScrapedAt(pre[j])
          /\ ~Survives(i) /\ Survives(j) /\ Survives(k)


\* The similar-title loop has run to its end and deleted what it listed
SimilarPassDone == lastOp = "similar_pass" /\ scan.pc = "done"
Related(a, b) ==
    a._id # b._id /\ SubstringRelated(a, b)

\* C26 as stated: after the similar-title pass no two records that are
\* left and whose titles are not empty have normalized titles of which one
\* contains the other.
C26_NoSimilarTitlesLeft ==
    SimilarPassDone =>
        \A a, b \in Range(store) :
            (Get(a, "title", "") # "" /\ Get(b, "title", "") # "") =>
                ~Related(a, b)

\* C26 as the code has it: the same of records whose titles are not empty
\* once trimmed; a title of whitespace alone is passed over.
C26_NoSimilarTrimmedTitlesLeft ==
    SimilarPassDone =>
        \A a, b \in Range(store) :
            (TrimmedLowerTitle(a) # "" /\ TrimmedLowerTitle(b) # "") =>
                ~Related(a, b)

\* C26 witness: the pass found three documents, two of them with titles
\* of which one contains the other and one with a blank title, and left
\* one of the two and the blank one.
C26_Witness ==
    /\ SimilarPassDone
    /\ Len(pre) = 3 /\ Len(store) = 2
    /\ \E a, b \in Range(pre) :
          /\ TrimmedLowerTitle(a) # "" /\ TrimmedLowerTitle(b) # ""
          /\ Related(a, b)
          /\ a \in Range(store) /\ b \notin Range(store)
    /\ \E c \in Range(store) : c.title = " "


(***************************************************************************)
(* The order of the steps of a cycle                                       *)
(***************************************************************************)
\* The steps in the order of run_scraping
Rank == [idle |-> 0, collapse |-> 1, fetch |-> 2, fetched |-> 3, dedup |-> 4,
         done |-> 5]
Deletes == Len(store') < Len(store) /\ \A k \in 1..Len(store') : store'[k] \in Range(store)
Inserts == Len(store') > Len(store) \/ nextId' # nextId \/ inserted' # inserted
LoopOver == pc = "dedup" /\ idx = Len(hackathons)

\* What one step of a cycle may do, by the position of the cycle
OrderedStep ==
    /\ Rank[pc'] = Rank[pc] \/ Rank[pc'] = Rank[pc] + 1 \/ pc' = "done"
    /\ pc \in {"idle", "collapse"} => Rank[pc'] = Rank[pc] + 1
    /\ store' # store => \/ pc \in {"idle", "collapse"} /\ Deletes
                         \/ LoopOver /\ Len(store') > Len(store)
    /\ (raw' # raw \/ reply' # reply \/ attempt' > attempt \/ wait' # wait)
          => pc = "fetch"
    /\ hackathons' # hackathons => pc = "fetched"
    /\ (idx' # idx \/ new_hackathons' # new_hackathons)
          => pc = "dedup" /\ idx < Len(hackathons) /\ idx' = idx + 1
    /\ Inserts => LoopOver /\ inserted = <<>> /\ pc' = "done"

\* C27: the steps of a cycle come in the order expire, collapse, fetch,
\* extract and validate, dedup, commit.  The first search attempt is made
\* right after remove_duplicates has returned, which ran right after
\* remove_expired_hackathons; the store gets documents in one step only,
\* which comes after the last round of the DEDUP loop and ends the cycle.
C27_StepsInOrder ==
    /\ [][OrderedStep]_vars
    /\ []((pc = "fetch" /\ attempt = 0) =>
             /\ lastOp \in {"cycle_collapse", "cycle_collapse_fails"}
             /\ prior \in {"cycle_expire", "cycle_expire_fails"})

\* C27 witness: a cycle that found an expired document and a live one has
\* gone through every step and ended by inserting two candidates.
C27_Witness ==
    /\ pc = "done" /\ lastOp = "cycle_insert"
    /\ Len(pre) = 2 /\ Len(inserted) = 2 /\ Len(store) = 3
    /\ idx = Len(hackathons)
    /\ wait = 0 /\ reply # NoReply


(***************************************************************************)
(* Maintenance that fails                                                  *)
(***************************************************************************)
MaintenanceFailed == lastOp \in {"cycle_expire_fails", "cycle_collapse_fails"}
StillExpired(h) ==
    Has(h, "end_date") /\ h.end_date # "TBD"
    /\ StrLess(h.end_date, Strftime(DateOf(LocalNow)))

\* C28: when remove_expired_hackathons or remove_duplicates meets a store
\* error, the function returns 0, no exception reaches run_scraping, and
\* the cycle is at its next step: after the expiry at the collapse, after
\* the collapse at the fetch, where a search attempt can be made.
C28_MaintenanceFailureGoesOn ==
    MaintenanceFailed =>
        /\ ret = 0 /\ ~caught /\ ~raised
        /\ pc = IF lastOp = "cycle_expire_fails" THEN "collapse" ELSE "fetch"
        /\ pc = "collapse" => ENABLED CycleCollapse
        /\ pc = "fetch" => ENABLED FetchReplies

\* C28 witness: a cycle has inserted a candidate and ended although the
\* store still holds a document that expired before the cycle began, which
\* the expiry would have deleted had it not failed.
C28_Witness ==
    /\ pc = "done" /\ lastOp = "cycle_insert" /\ inserted # <<>>
    /\ ~caught
    /\ \E k \in 1..Len(store) : StillExpired(store[k])


(***************************************************************************)
(* Maintenance while a COMMIT runs                                         *)
(***************************************************************************)
CommitUnderWay == pc = "dedup" /\ idx = Len(hackathons) /\ inserted # <<>>
MaintenanceUnderWay == scan.pc \in {"expire", "old_tbd", "find", "delete"}
Gone == Range(store) \ Range(store')
InSnapshot(h) ==
    \E k \in 1..Len(scan.all_hackathons) : scan.all_hackathons[k]._id = h._id

Kept(h) == \E k \in 1..Len(store') : store'[k]._id = h._id
Matched(hackathon) ==
    /\ ~Falsy(hackathon, "title") /\ ~Falsy(hackathon, "website_url")
    /\ ~FindOne(store, hackathon).raises
    /\ FindOne(store, hackathon).existing
\* The stored document was there before the COMMIT of this cycle
PreExisting(h) == h._id < nextId - Len(inserted)

\* C30: on every step of a cycle a stored document either stays as it is
\* or is deleted, and it is deleted by the maintenance steps only; a round
\* of DEDUP whose candidate matches a stored document leaves the store and
\* new_hackathons as they are, so the candidate is never inserted; the
\* COMMIT adds documents of new_hackathons and nothing else.
C30_CycleLeavesRecordsAlone ==
    [][/\ \A h \in Range(store) :
             \/ h \in Range(store')
             \/ ~Kept(h) /\ pc \in {"idle", "collapse"}
       /\ (pc = "dedup" /\ idx < Len(hackathons) /\ idx' = idx + 1
             /\ Matched(hackathons[idx + 1])) =>
               new_hackathons' = new_hackathons /\ store' = store
       /\ pc \notin {"idle", "collapse"} =>
               \E n \in 0..Len(new_hackathons) :
                   store' = store \o InsertMany(<<>>, SubSeq(new_hackathons, 1, n),
                                                nextId)]_vars

\* C30 witness: the cycle is over and has inserted a candidate; another
\* candidate of the same reply matched a document that was stored before,
\* differs from it, and is not among the inserted ones.
C30_Witness ==
    /\ pc = "done" /\ lastOp = "cycle_insert" /\ inserted # <<>>
    /\ \E k \in 1..Len(hackathons), i \in 1..Len(store) :
          /\ PreExisting(store[i])
          /\ ~Falsy(hackathons[k], "title")
          /\ ~Falsy(hackathons[k], "website_url")
          /\ FindOne(<<store[i]>>, hackathons[k]).existing
          /\ hackathons[k].title # store[i].title
          /\ \A n \in 1..Len(inserted) : inserted[n] # hackathons[k]


(***************************************************************************)
(* What maintenance leaves alone                                           *)
(***************************************************************************)
MaintenanceRan == lastOp \in {"remove_expired_hackathons", "remove_duplicates"}
StillStored(h) == \E k \in 1..Len(store) : store[k]._id = h._id

\* C31: after remove_expired_hackathons() or remove_duplicates() the store
\* holds, in the order they had, the documents it held before whose _id is
\* still there, each with exactly the fields and values it had; no
\* document is new.
C31_MaintenanceOnlyDeletes ==
    MaintenanceRan =>
        /\ store = SelectSeq(pre, StillStored)
        /\ \A k \in 1..Len(store) : store[k]._id < nextId

\* C31 witness: expiry and then collapse have run on a store of three
\* documents; each deleted one, and one document is left.
C31_Witness ==
    /\ lastOp = "remove_duplicates" /\ prior = "remove_expired_hackathons"
    /\ nextId = 4
    /\ Len(pre) = 2 /\ Len(store) = 1
    /\ store[1] \in Range(pre)


\* C32 as stated: the number remove_duplicates() returns is the number of
\* documents the call deleted from the store, each counted once.
C32_ReturnsDeletionCount ==
    lastOp = "remove_duplicates" => ret = Len(pre) - Len(store)


(***************************************************************************)
(* A cycle comes to its end                                                *)
(***************************************************************************)
\* C33: a cycle never makes more than MaxAttempts search attempts, and
\* when every call it makes returns or raises it reaches its end and
\* stays there.
C33_CycleTerminates ==
    /\ [](attempt <= MaxAttempts)
    /\ <>[](pc = "done")

\* C33 witness: the cycle has ended after all three search attempts
\* failed, the text "[]" standing in for the reply.
C33_Witness ==
    /\ pc = "done"
    /\ lastOp = "cycle_parse" /\ prior = "fetch_fails"
    /\ raw = "[]" /\ hackathons = <<>>


(***************************************************************************)
(* The passes of remove_duplicates, one after the other                    *)
(***************************************************************************)
\* A pass reads its snapshot
Reads == scan.pc = "find" /\ scan'.pc = "delete"
\* What the pass before has deleted: scan.listed, until the next one reads
DeletedBefore(h) == h._id \in scan.listed

\* C34: when a pass reads its snapshot, the store holds none of the
\* documents the pass before it has deleted; the snapshot is the store as
\* it is then, so none of them is in it, none of them is listed again, and
\* what the pass lists is what it would list had they never been stored.
C34_PassReadsAfterDeletions ==
    [][Reads =>
         /\ \A h \in Range(store) : ~DeletedBefore(h)
         /\ scan'.all_hackathons = store
         /\ \A h \in Range(scan'.all_hackathons) : ~DeletedBefore(h)
         /\ scan'.listed \cap scan.listed = {}
         /\ scan'.listed =
               Listed(scan.pass,
                      SelectSeq(store, LAMBDA h : ~DeletedBefore(h)))]_vars

\* C34 witness: the URL pass is about to read; the title pass has deleted
\* a document that has the URL of a document still stored, which the URL
\* pass would have set against it.
C34_Witness ==
    /\ scan.pc = "find" /\ scan.pass = "url"
    /\ \E h \in Range(scan.all_hackathons), kept \in Range(store) :
          /\ DeletedBefore(h) /\ h \notin Range(store)
          /\ TrimmedUrl(h) = TrimmedUrl(kept)
          /\ TrimmedLowerTitle(h) # TrimmedLowerTitle(kept)


\* C36: when the similar-title pass has ended, every document it deleted
\* has a document left in the store whose normalized title contains its
\* own or is contained in it.
C36_SimilarPassLeavesOne ==
    SimilarPassDone =>
        \A h \in Range(scan.all_hackathons) :
            h \notin Range(store) =>
                \E kept \in Range(store) : Related(h, kept)


(***************************************************************************)
(* The store after a cycle that ran alone                                  *)
(***************************************************************************)
\* The cycle has ended with its COMMIT
Committed == pc = "done" /\ lastOp = "cycle_insert"

\* C37: after the COMMIT of a cycle that ran alone on a store without
\* duplicates, no two documents of the store have the same title in any
\* case of letters, and no two have the same website_url.
C37_NoDuplicatesAfterCommit ==
    Committed =>
        \A i, j \in 1..Len(store) :
            i < j =>
                /\ Lower(store[i].title) # Lower(store[j].title)
                /\ store[i].website_url # store[j].website_url


(***************************************************************************)
(* The expiry that follows a COMMIT                                        *)
(***************************************************************************)
\* C38: remove_expired_hackathons(), called next after the COMMIT of a
\* cycle, deletes none of the records this COMMIT inserted.
C38_InsertedSurvivesExpiry ==
    (lastOp = "remove_expired_hackathons" /\ prior = "cycle_insert") =>
        \A h \in Range(pre) : h \in Range(store)



(***************************************************************************)
(* Two calls of remove_duplicates() under way together                     *)
(***************************************************************************)
SameTitle(g, h) == TitleKey(g) = TitleKey(h)
SameUrl(g, h) == UrlCounts(UrlKey(g)) /\ UrlKey(g) = UrlKey(h)
\* The documents of all that equal titles and equal URLs link to those of S
RECURSIVE Duplicates(_, _)
Duplicates(S, all) ==
    LET T == S \cup {g \in all : \E h \in S : SameTitle(g, h) \/ SameUrl(g, h)}
    IN IF T = S THEN S ELSE Duplicates(T, all)

\* C39: two calls of remove_duplicates() under way together, each deleting
\* by _id what it listed from its own snapshots, leave in the store at
\* least one of the documents that an equal title or an equal website_url
\* made duplicates of each other before the calls.
C39_DuplicateGroupRemains ==
    \A h \in Range(pre) :
        (\E g \in Range(pre) : g._id # h._id /\ (SameTitle(g, h) \/ SameUrl(g, h)))
            => \E g \in Duplicates({h}, Range(pre)) : g \in Range(store)

============================================================================
